---- MODULE Spec2Model ----
(***************************************************************************)
(* Commission computation and lifecycle engine of the Vanguard MLM backend *)
(* (backend/server.py): order-paid processing, the two release sweeps,     *)
(* reversal on order cancellation, withdrawal requests, volume crediting,  *)
(* the qualification evaluations and the sponsor network built by          *)
(* registration and conversion, over the document store's users, orders,   *)
(* commissions, transactions and withdrawals collections.                  *)
(*                                                                         *)
(* Time is counted in whole days.  Money is counted in currency units; the *)
(* commission bases and rates of the model are those for which the         *)
(* source's floating-point arithmetic (base * (rate / 100)) is exact.      *)
(* The append-only sinks db.logs and db.notifications are read by no       *)
(* operation of the engine and are not part of the state.                  *)
(***************************************************************************)
EXTENDS Integers, Sequences, FiniteSets, TLC

VARIABLES
    now,            \* datetime.now(timezone.utc), in days
    settings,       \* db.settings, the "global" document
    users,          \* db.users: user_id -> document
    orders,         \* db.orders: order_id -> document
    commissions,    \* db.commissions, in insertion order; commission_id = index
    transactions,   \* db.transactions, in insertion order
    withdrawals,    \* db.withdrawals, in insertion order
    tasks           \* handler invocations in flight: task id -> local variables

vars == <<now, settings, users, orders, commissions, transactions, withdrawals, tasks>>

store == <<settings, users, orders, commissions, transactions, withdrawals>>

(***************************************************************************)
(* Bounds of the model.                                                    *)
(***************************************************************************)
MaxTicks == 2
DaysPerTick == 4
MaxComms == 3
MaxQualTicks == 2
DaysPerQualTick == 180
MaxVolume == 1000
MaxUsers == 3
MaxDepth == 2
MaxOrders == 1
MaxBalance == 200

(***************************************************************************)
(* Values of the source.                                                   *)
(***************************************************************************)
None == "None"
NoTime == -1
NoRate == -1
CancelWindowDays == 7
FindCommissionsLimit == 100
JobReleaseLimit == 10000
AdminReleaseLimit == 1000
QualificationLimit == 10000

ACCESS_LEVELS ==
    [l \in 0..6 |->
        CASE l = 0 -> "admin_tecnico"
          [] l = 1 -> "admin_geral"
          [] l = 2 -> "supervisor"
          [] l = 3 -> "lider"
          [] l = 4 -> "revendedor"
          [] l = 5 -> "cliente"
          [] l = 6 -> "embaixador"]

default_settings ==
    [ commission_level_1 |-> 10,
      commission_level_2 |-> 5,
      commission_level_3 |-> 5,
      client_referral_commission |-> 5,
      bonus_block_days |-> 7,
      min_withdrawal_amount |-> 50,
      min_qualification_amount |-> 100,
      inactive_months_suspend |-> 6,
      inactive_months_cancel |-> 12 ]

\* A settings document after PUT /api/settings: levels 2 and 3 pay different
\* rates and the hold period is shorter than the cancellation window.
custom_settings ==
    [ default_settings EXCEPT
        !.commission_level_2 = 6,
        !.commission_level_3 = 4,
        !.bonus_block_days = 2 ]

(***************************************************************************)
(* The user store of the model: the reseller chain u1 -> u2 -> u3 -> u4    *)
(* (u4 a root) and a client cl, as registration and conversion build them. *)
(* u1 has access level l1: a reseller (4), or one promoted to leader (3).  *)
(***************************************************************************)
NewUser(level, sponsor, depth, st) ==
    [ access_level |-> level,
      status |-> st,
      sponsor_id |-> sponsor,
      hierarchy_level |-> depth,
      last_qualification |-> IF level \in {3, 4} THEN 0 ELSE NoTime,
      personal_volume |-> 0,
      team_volume |-> 0,
      available_balance |-> 0,
      blocked_balance |-> 0,
      ambassador_commission |-> IF level = 6 THEN 5 ELSE NoRate,
      bank_info |-> TRUE ]

ChainUsers(l1, s1, s2, s3) ==
    [ u \in {"u1", "u2", "u3", "u4", "cl"} |->
        CASE u = "u1" -> NewUser(l1, "u2", 3, s1)
          [] u = "u2" -> NewUser(4, "u3", 2, s2)
          [] u = "u3" -> NewUser(4, "u4", 1, s3)
          [] u = "u4" -> NewUser(4, None, 0, "active")
          [] u = "cl" -> NewUser(5, None, 0, "active") ]

NewOrder(buyer, base, ref_id, ref_type) ==
    [ user_id |-> buyer,
      commission_base |-> base,
      referrer_id |-> ref_id,
      referrer_type |-> ref_type,
      payment_status |-> "pending",
      order_status |-> "pending",
      paid_at |-> NoTime,
      cancelled_at |-> NoTime ]


(***************************************************************************)
(* Store helpers.                                                          *)
(***************************************************************************)
RECURSIVE SumSeq(_)
SumSeq(s) == IF s = <<>> THEN 0 ELSE Head(s) + SumSeq(Tail(s))

\* cursor.to_list(n): the first n documents of the result
to_list(s, n) == IF Len(s) <= n THEN s ELSE SubSeq(s, 1, n)

\* the members of the index set S in increasing order (a cursor returns the
\* matching documents in insertion order)
RECURSIVE InOrder(_, _, _)
InOrder(S, i, n) ==
    IF i > n THEN <<>>
    ELSE (IF i \in S THEN <<i>> ELSE <<>>) \o InOrder(S, i + 1, n)

\* db.users.update_one({"user_id": uid}, {"$inc": {field: delta}}):
\* an atomic add, and a no-op when no document matches
IncBlocked(us, uid, delta) ==
    IF uid \in DOMAIN us
    THEN [us EXCEPT ![uid].blocked_balance = @ + delta]
    ELSE us

IncAvailable(us, uid, delta) ==
    IF uid \in DOMAIN us
    THEN [us EXCEPT ![uid].available_balance = @ + delta]
    ELSE us

IncPersonalVolume(us, uid, delta) ==
    IF uid \in DOMAIN us
    THEN [us EXCEPT ![uid].personal_volume = @ + delta]
    ELSE us

IncTeamVolume(us, uid, delta) ==
    IF uid \in DOMAIN us
    THEN [us EXCEPT ![uid].team_volume = @ + delta]
    ELSE us

(***************************************************************************)
(* process_order_commissions                                               *)
(***************************************************************************)
\* Amount with the percentage used as the rate
Amount_PercentAsRate(base, percent) == base * percent

\* commission_base * rate with rate = percent / 100
Amount(base, percent) == (base * percent) \div 100

NewCommission(oid, uid, level, percent, base, release_at, t) ==
    [ order_id |-> oid,
      user_id |-> uid,
      level |-> level,
      rate |-> percent,
      base_amount |-> base,
      amount |-> Amount(base, percent),
      status |-> "blocked",
      release_at |-> release_at,
      created_at |-> t,
      released_at |-> NoTime,
      reversed_at |-> NoTime ]

commission_rates(st) ==
    << st.commission_level_1, st.commission_level_2, st.commission_level_3 >>

\* ChainWalk with range(2) for range(3)
RECURSIVE ChainWalk_TwoLevels(_, _, _)
ChainWalk_TwoLevels(us, level, cur) ==
    IF level >= 2 THEN <<>>
    ELSE IF cur = None THEN <<>>
    ELSE IF cur \notin DOMAIN us THEN ChainWalk_TwoLevels(us, level + 1, None)
    ELSE IF us[cur].status # "active"
         THEN ChainWalk_TwoLevels(us, level + 1, us[cur].sponsor_id)
    ELSE <<[level |-> level + 1, user_id |-> cur]>>
         \o ChainWalk_TwoLevels(us, level + 1, us[cur].sponsor_id)

\* ChainWalk with the level counted over the paid slots only: an inactive
\* user does not use up a level
RECURSIVE ChainWalk_SkipAdjusted(_, _, _)
ChainWalk_SkipAdjusted(us, level, cur) ==
    IF level >= 3 THEN <<>>
    ELSE IF cur = None THEN <<>>
    ELSE IF cur \notin DOMAIN us THEN <<>>
    ELSE IF us[cur].status # "active"
         THEN ChainWalk_SkipAdjusted(us, level, us[cur].sponsor_id)
    ELSE <<[level |-> level + 1, user_id |-> cur]>>
         \o ChainWalk_SkipAdjusted(us, level + 1, us[cur].sponsor_id)

\* ChainWalk without the status test: an inactive user is paid too
RECURSIVE ChainWalk_PaysInactive(_, _, _)
ChainWalk_PaysInactive(us, level, cur) ==
    IF level >= 3 THEN <<>>
    ELSE IF cur = None THEN <<>>
    ELSE IF cur \notin DOMAIN us THEN ChainWalk_PaysInactive(us, level + 1, None)
    ELSE <<[level |-> level + 1, user_id |-> cur]>>
         \o ChainWalk_PaysInactive(us, level + 1, us[cur].sponsor_id)

\* The loop "for level in range(3)" of the reseller/leader branch, from
\* iteration `level` (0-based) with current_user_id = cur: the slots it pays,
\* in order, each <<level + 1, user_id>>.
RECURSIVE ChainWalk(_, _, _)
ChainWalk(us, level, cur) ==
    IF level >= 3 THEN <<>>
    ELSE IF cur = None THEN <<>>
    ELSE IF cur \notin DOMAIN us THEN ChainWalk(us, level + 1, None)
    ELSE IF us[cur].status # "active"
         THEN ChainWalk(us, level + 1, us[cur].sponsor_id)
    ELSE <<[level |-> level + 1, user_id |-> cur]>>
         \o ChainWalk(us, level + 1, us[cur].sponsor_id)

\* CommissionsFor with the status test of the tiered walk applied to the
\* ambassador and client branches too
CommissionsFor_FlatChecksStatus(us, st, oid, order, t) ==
    LET commission_base == order.commission_base
        referrer_id     == order.referrer_id
        referrer_type   == order.referrer_type
        release_at      == t + st.bonus_block_days
    IN  IF referrer_id = None \/ referrer_id \notin DOMAIN us THEN <<>>
        ELSE IF referrer_type \in {"embaixador", "cliente"}
                /\ us[referrer_id].status # "active"
             THEN <<>>
        ELSE IF referrer_type = "embaixador"
             THEN <<NewCommission(oid, referrer_id, 0,
                                  us[referrer_id].ambassador_commission,
                                  commission_base, release_at, t)>>
        ELSE IF referrer_type = "cliente"
             THEN <<NewCommission(oid, referrer_id, 0,
                                  st.client_referral_commission,
                                  commission_base, release_at, t)>>
        ELSE IF referrer_type \in {"revendedor", "lider"}
             THEN LET slots == ChainWalk(us, 0, referrer_id)
                  IN  [ k \in 1..Len(slots) |->
                          NewCommission(oid, slots[k].user_id, slots[k].level,
                                        commission_rates(st)[slots[k].level],
                                        commission_base, release_at, t) ]
        ELSE <<>>

\* CommissionsFor with the tiered walk as the default branch
CommissionsFor_UnknownAsTiered(us, st, oid, order, t) ==
    LET commission_base == order.commission_base
        referrer_id     == order.referrer_id
        referrer_type   == order.referrer_type
        release_at      == t + st.bonus_block_days
    IN  IF referrer_id = None \/ referrer_id \notin DOMAIN us THEN <<>>
        ELSE IF referrer_type = "embaixador"
             THEN <<NewCommission(oid, referrer_id, 0,
                                  us[referrer_id].ambassador_commission,
                                  commission_base, release_at, t)>>
        ELSE IF referrer_type = "cliente"
             THEN <<NewCommission(oid, referrer_id, 0,
                                  st.client_referral_commission,
                                  commission_base, release_at, t)>>
        ELSE IF TRUE
             THEN LET slots == ChainWalk(us, 0, referrer_id)
                  IN  [ k \in 1..Len(slots) |->
                          NewCommission(oid, slots[k].user_id, slots[k].level,
                                        commission_rates(st)[slots[k].level],
                                        commission_base, release_at, t) ]
        ELSE <<>>

\* CommissionsFor with the branch chosen by the referrer's role at payment
CommissionsFor_CurrentRole(us, st, oid, order, t) ==
    LET commission_base == order.commission_base
        referrer_id     == order.referrer_id
        referrer_type   == IF order.referrer_id \in DOMAIN us
                           THEN ACCESS_LEVELS[us[order.referrer_id].access_level]
                           ELSE order.referrer_type
        release_at      == t + st.bonus_block_days
    IN  IF referrer_id = None \/ referrer_id \notin DOMAIN us THEN <<>>
        ELSE IF referrer_type = "embaixador"
             THEN <<NewCommission(oid, referrer_id, 0,
                                  us[referrer_id].ambassador_commission,
                                  commission_base, release_at, t)>>
        ELSE IF referrer_type = "cliente"
             THEN <<NewCommission(oid, referrer_id, 0,
                                  st.client_referral_commission,
                                  commission_base, release_at, t)>>
        ELSE IF referrer_type \in {"revendedor", "lider"}
             THEN LET slots == ChainWalk(us, 0, referrer_id)
                  IN  [ k \in 1..Len(slots) |->
                          NewCommission(oid, slots[k].user_id, slots[k].level,
                                        commission_rates(st)[slots[k].level],
                                        commission_base, release_at, t) ]
        ELSE <<>>

\* The commissions process_order_commissions inserts for `order` (id oid) at
\* time t, in order.  Empty when the function returns early.
CommissionsFor(us, st, oid, order, t) ==
    LET commission_base == order.commission_base
        referrer_id     == order.referrer_id
        referrer_type   == order.referrer_type
        release_at      == t + st.bonus_block_days
    IN  IF referrer_id = None \/ referrer_id \notin DOMAIN us THEN <<>>
        ELSE IF referrer_type = "embaixador"
             THEN <<NewCommission(oid, referrer_id, 0,
                                  us[referrer_id].ambassador_commission,
                                  commission_base, release_at, t)>>
        ELSE IF referrer_type = "cliente"
             THEN <<NewCommission(oid, referrer_id, 0,
                                  st.client_referral_commission,
                                  commission_base, release_at, t)>>
        ELSE IF referrer_type \in {"revendedor", "lider"}
             THEN LET slots == ChainWalk(us, 0, referrer_id)
                  IN  [ k \in 1..Len(slots) |->
                          NewCommission(oid, slots[k].user_id, slots[k].level,
                                        commission_rates(st)[slots[k].level],
                                        commission_base, release_at, t) ]
        ELSE <<>>

\* CreditBlocked for the first commission only
CreditBlocked_HeadOnly(us, created) ==
    IF created = <<>> THEN us
    ELSE IncBlocked(us, Head(created).user_id, Head(created).amount)

\* the "$inc blocked_balance" that follows each insert
RECURSIVE CreditBlocked(_, _)
CreditBlocked(us, created) ==
    IF created = <<>> THEN us
    ELSE CreditBlocked(IncBlocked(us, Head(created).user_id, Head(created).amount),
                       Tail(created))

\* TeamVolumeWalk that credits active ancestors only
RECURSIVE TeamVolumeWalk_ActiveOnly(_, _, _)
TeamVolumeWalk_ActiveOnly(us, current_sponsor_id, base) ==
    IF current_sponsor_id = None THEN us
    ELSE TeamVolumeWalk_ActiveOnly(
             IF current_sponsor_id \in DOMAIN us
                /\ us[current_sponsor_id].status = "active"
             THEN IncTeamVolume(us, current_sponsor_id, base)
             ELSE us,
             IF current_sponsor_id \in DOMAIN us
             THEN us[current_sponsor_id].sponsor_id
             ELSE None,
             base)

\* the team-volume walk "while current_sponsor_id"
RECURSIVE TeamVolumeWalk(_, _, _)
TeamVolumeWalk(us, current_sponsor_id, base) ==
    IF current_sponsor_id = None THEN us
    ELSE TeamVolumeWalk(IncTeamVolume(us, current_sponsor_id, base),
                        IF current_sponsor_id \in DOMAIN us
                        THEN us[current_sponsor_id].sponsor_id
                        ELSE None,
                        base)

\* TRUE when the loop "while current_sponsor_id" started at cur reaches a null
\* sponsor or a missing user record.  A walk that is still at a user after
\* `fuel` = number of users links has visited some user twice and never ends.
RECURSIVE WalkEnds(_, _, _)
WalkEnds(us, cur, fuel) ==
    IF cur = None \/ cur \notin DOMAIN us THEN TRUE
    ELSE IF fuel = 0 THEN FALSE
    ELSE WalkEnds(us, us[cur].sponsor_id, fuel - 1)

\* TRUE when the team-volume walk for the buyer uid terminates
VolumeWalkTerminates(us, uid) ==
    ( uid \in DOMAIN us /\ us[uid].access_level \in {3, 4} )
        => WalkEnds(us, us[uid].sponsor_id, Cardinality(DOMAIN us))

\* the volume update at the end of process_order_commissions
CreditVolumes(us, order) ==
    LET buyer == order.user_id
    IN  IF buyer \in DOMAIN us /\ us[buyer].access_level \in {3, 4}
        THEN TeamVolumeWalk(IncPersonalVolume(us, buyer, order.commission_base),
                            us[buyer].sponsor_id, order.commission_base)
        ELSE us

\* TRUE when process_order_commissions returns at one of its two early returns
ReturnsEarly(us, order) ==
    order.referrer_id = None \/ order.referrer_id \notin DOMAIN us

\* TRUE when the ambassador branch divides an unset (null) rate by 100 and so
\* raises before any write
RaisesOnRate(us, order) ==
    /\ ~ReturnsEarly(us, order)
    /\ order.referrer_type = "embaixador"
    /\ us[order.referrer_id].ambassador_commission = NoRate

\* db.users after process_order_commissions
UsersAfterProcess(us, st, oid, order, t) ==
    IF ReturnsEarly(us, order) THEN us
    ELSE CreditVolumes(CreditBlocked(us, CommissionsFor(us, st, oid, order, t)), order)

(***************************************************************************)
(* Release sweeps: release_commissions_job (scheduler, run-job) and        *)
(* process_blocked_commissions (admin/process-commissions)                 *)
(***************************************************************************)
\* FindEligible without the status filter
FindEligible_AnyStatus(comms, t, limit) ==
    to_list(InOrder({ i \in 1..Len(comms) : comms[i].release_at <= t },
                    1, Len(comms)),
            limit)

\* FindEligible with a status in the filter that no commission has
FindEligible_PendingStatus(comms, t, limit) ==
    to_list(InOrder({ i \in 1..Len(comms) :
                        comms[i].status = "pending" /\ comms[i].release_at <= t },
                    1, Len(comms)),
            limit)

\* FindEligible without the release_at filter
FindEligible_NoTimeFilter(comms, t, limit) ==
    to_list(InOrder({ i \in 1..Len(comms) : comms[i].status = "blocked" },
                    1, Len(comms)),
            limit)

\* find({"status": "blocked", "release_at": {"$lte": now}}).to_list(limit):
\* the commission ids selected, in order
FindEligible(comms, t, limit) ==
    to_list(InOrder({ i \in 1..Len(comms) :
                        comms[i].status = "blocked" /\ comms[i].release_at <= t },
                    1, Len(comms)),
            limit)

\* update_one({"commission_id": id}, {"$set": {"status": "available", ...}})
SetAvailable(comms, id, t) ==
    [comms EXCEPT ![id].status = "available", ![id].released_at = t]

\* MoveToAvailable without the decrement of blocked_balance
MoveToAvailable_CreditOnly(us, uid, amount) ==
    IF uid \in DOMAIN us
    THEN [us EXCEPT ![uid].available_balance = @ + amount]
    ELSE us

\* update_one({"user_id": uid}, {"$inc": {blocked: -amount, available: +amount}})
MoveToAvailable(us, uid, amount) ==
    IF uid \in DOMAIN us
    THEN [us EXCEPT ![uid].blocked_balance = @ - amount,
                    ![uid].available_balance = @ + amount]
    ELSE us

ReleaseTransaction(comms, id) ==
    [ user_id |-> comms[id].user_id,
      type |-> "commission_released",
      amount |-> comms[id].amount,
      reference_id |-> id ]

\* the loop of release_commissions_job over its snapshot: <<commissions, users>>
RECURSIVE JobLoop(_, _, _, _)
JobLoop(comms, us, snapshot, t) ==
    IF snapshot = <<>> THEN <<comms, us>>
    ELSE LET id == Head(snapshot)
         IN  JobLoop(SetAvailable(comms, id, t),
                     MoveToAvailable(us, comms[id].user_id, comms[id].amount),
                     Tail(snapshot), t)

\* the loop of process_blocked_commissions: <<commissions, users, transactions>>
RECURSIVE AdminLoop(_, _, _, _, _)
AdminLoop(comms, us, txs, snapshot, t) ==
    IF snapshot = <<>> THEN <<comms, us, txs>>
    ELSE LET id == Head(snapshot)
         IN  AdminLoop(SetAvailable(comms, id, t),
                       MoveToAvailable(us, comms[id].user_id, comms[id].amount),
                       Append(txs, ReleaseTransaction(comms, id)),
                       Tail(snapshot), t)

(***************************************************************************)
(* reverse_order_commissions                                               *)
(***************************************************************************)
\* find({"order_id": order_id}).to_list(100): the documents read, each with
\* the status it had when read
FindByOrder(comms, oid) ==
    LET ids == to_list(InOrder({ i \in 1..Len(comms) : comms[i].order_id = oid },
                               1, Len(comms)),
                       FindCommissionsLimit)
    IN  [ k \in 1..Len(ids) |->
            [ commission_id |-> ids[k],
              user_id |-> comms[ids[k]].user_id,
              amount |-> comms[ids[k]].amount,
              status |-> comms[ids[k]].status ] ]

\* Debit with the status of the document ignored: always out of blocked_balance
Debit_BlockedOnly(us, comm) ==
    IncBlocked(us, comm.user_id, -comm.amount)

\* Debit with "else" for "elif status == available": a reversed commission is
\* debited again
Debit_Unguarded(us, comm) ==
    IF comm.status = "blocked" THEN IncBlocked(us, comm.user_id, -comm.amount)
    ELSE IncAvailable(us, comm.user_id, -comm.amount)

\* the debit chosen by the status of the document as read
Debit(us, comm) ==
    IF comm.status = "blocked" THEN IncBlocked(us, comm.user_id, -comm.amount)
    ELSE IF comm.status = "available" THEN IncAvailable(us, comm.user_id, -comm.amount)
    ELSE us

SetReversed(comms, id, t) ==
    [comms EXCEPT ![id].status = "reversed", ![id].reversed_at = t]

\* the loop of reverse_order_commissions over its snapshot: <<commissions, users>>
RECURSIVE ReverseLoop(_, _, _, _)
ReverseLoop(comms, us, snapshot, t) ==
    IF snapshot = <<>> THEN <<comms, us>>
    ELSE LET comm == Head(snapshot)
         IN  ReverseLoop(SetReversed(comms, comm.commission_id, t),
                         Debit(us, comm),
                         Tail(snapshot), t)

\* WithinCancelWindow without the 7-day test
WithinCancelWindow_NoGrace(order, t) ==
    order.paid_at # NoTime

\* the test of update_order_status that guards the reversal
WithinCancelWindow(order, t) ==
    order.paid_at # NoTime /\ t - order.paid_at <= CancelWindowDays

(***************************************************************************)
(* Qualification evaluation: check_qualifications_job (scheduler, run-job)  *)
(* and check_qualifications (admin/check-qualifications)                    *)
(***************************************************************************)
\* user ids in the order of their insertion into db.users (the order in which
\* a cursor without sort returns them)
UserIds == << "u4", "u3", "u2", "u1", "cl", "am" >>

\* find({"access_level": 4}).to_list(10000): the documents read, each with the
\* fields it had when read
FindResellers(us) ==
    LET ids == to_list(InOrder({ i \in 1..Len(UserIds) :
                                   /\ UserIds[i] \in DOMAIN us
                                   /\ us[UserIds[i]].access_level = 4 },
                               1, Len(UserIds)),
                       QualificationLimit)
    IN  [ k \in 1..Len(ids) |->
            [ user_id |-> UserIds[ids[k]],
              personal_volume |-> us[UserIds[ids[k]]].personal_volume,
              last_qualification |-> us[UserIds[ids[k]]].last_qualification,
              status |-> us[UserIds[ids[k]]].status,
              sponsor_id |-> us[UserIds[ids[k]]].sponsor_id ] ]

\* (now - last_qual_date).days // 30
months_inactive(t, last_qual) == (t - last_qual) \div 30

\* MoveDownlineUp without the "$inc" of hierarchy_level
MoveDownlineUp_NoInc(us, rid, new_sponsor) ==
    [ u \in DOMAIN us |->
        IF us[u].sponsor_id = rid
        THEN [us[u] EXCEPT !.sponsor_id = new_sponsor]
        ELSE us[u] ]

\* update_many({"sponsor_id": rid}, {"$set": {"sponsor_id": new_sponsor},
\*                                   "$inc": {"hierarchy_level": -1}})
MoveDownlineUp(us, rid, new_sponsor) ==
    [ u \in DOMAIN us |->
        IF us[u].sponsor_id = rid
        THEN [us[u] EXCEPT !.sponsor_id = new_sponsor,
                           !.hierarchy_level = @ - 1]
        ELSE us[u] ]

\* Cancels with an unset last_qualification read as the epoch
Cancels_UnsetAsEpoch(reseller, t, st) ==
    /\ months_inactive(t, reseller.last_qualification) >= st.inactive_months_cancel
    /\ reseller.status # "cancelled"

\* TRUE when the evaluation of the reseller document cancels the reseller
Cancels(reseller, t, st) ==
    /\ reseller.last_qualification # NoTime
    /\ months_inactive(t, reseller.last_qualification) >= st.inactive_months_cancel
    /\ reseller.status # "cancelled"

\* TRUE when the evaluation of the reseller document suspends the reseller
Suspends(reseller, t, st) ==
    /\ reseller.last_qualification # NoTime
    /\ ~Cancels(reseller, t, st)
    /\ months_inactive(t, reseller.last_qualification) >= st.inactive_months_suspend
    /\ reseller.status = "active"

\* CheckInactivity with the splice applied on suspension too
CheckInactivity_SuspendSplices(us, reseller, t, st) ==
    IF Cancels(reseller, t, st)
    THEN MoveDownlineUp([us EXCEPT ![reseller.user_id].status = "cancelled"],
                        reseller.user_id, reseller.sponsor_id)
    ELSE IF Suspends(reseller, t, st)
    THEN MoveDownlineUp([us EXCEPT ![reseller.user_id].status = "suspended"],
                        reseller.user_id, reseller.sponsor_id)
    ELSE us

\* the inactivity check of one reseller document: cancel and splice, suspend,
\* or nothing
CheckInactivity(us, reseller, t, st) ==
    IF Cancels(reseller, t, st)
    THEN MoveDownlineUp([us EXCEPT ![reseller.user_id].status = "cancelled"],
                        reseller.user_id, reseller.sponsor_id)
    ELSE IF Suspends(reseller, t, st)
    THEN [us EXCEPT ![reseller.user_id].status = "suspended"]
    ELSE us

\* TRUE when the scheduled job finds the reseller qualified
Qualifies(reseller, st) ==
    reseller.personal_volume >= st.min_qualification_amount

\* one iteration of the loop of check_qualifications_job
JobEvaluate(us, reseller, t, st) ==
    IF Qualifies(reseller, st)
    THEN [us EXCEPT ![reseller.user_id].last_qualification = t]
    ELSE CheckInactivity(us, reseller, t, st)

\* the loop of check_qualifications_job over its snapshot
RECURSIVE JobQualifyLoop(_, _, _, _)
JobQualifyLoop(us, resellers, t, st) ==
    IF resellers = <<>> THEN us
    ELSE JobQualifyLoop(JobEvaluate(us, Head(resellers), t, st),
                        Tail(resellers), t, st)

\* the loop of check_qualifications over its snapshot
RECURSIVE AdminQualifyLoop(_, _, _, _)
AdminQualifyLoop(us, resellers, t, st) ==
    IF resellers = <<>> THEN us
    ELSE AdminQualifyLoop(CheckInactivity(us, Head(resellers), t, st),
                          Tail(resellers), t, st)

\* ResetVolumes with the filter {"access_level": 4}
ResetVolumes_ResellersOnly(us) ==
    [ u \in DOMAIN us |->
        IF us[u].access_level = 4
        THEN [us[u] EXCEPT !.personal_volume = 0, !.team_volume = 0]
        ELSE us[u] ]

\* update_many({"access_level": {"$in": [3, 4]}},
\*             {"$set": {"personal_volume": 0, "team_volume": 0}})
ResetVolumes(us) ==
    [ u \in DOMAIN us |->
        IF us[u].access_level \in {3, 4}
        THEN [us[u] EXCEPT !.personal_volume = 0, !.team_volume = 0]
        ELSE us[u] ]

(***************************************************************************)
(* Handlers run to completion (one action per invocation).                 *)
(***************************************************************************)
TaskIds == {"t1", "t2"}

Idle == [ op |-> "idle", pc |-> "idle", now |-> NoTime, snapshot |-> <<>>,
          order_id |-> None ]

NoTasks == [ t \in TaskIds |-> Idle ]

\* PUT /api/orders/{order_id}/status?status=paid.  The request completes only
\* when the team-volume walk of process_order_commissions terminates.
OrderPaid(oid) ==
    LET order   == orders[oid]
        created == CommissionsFor(users, settings, oid, order, now)
    IN  /\ oid \in DOMAIN orders
        /\ Len(commissions) + Len(created) <= MaxComms
        /\ ReturnsEarly(users, order) \/ VolumeWalkTerminates(users, order.user_id)
        /\ IF RaisesOnRate(users, order)
           THEN UNCHANGED <<users, orders, commissions>>
           ELSE /\ commissions' = commissions \o created
                /\ users' = UsersAfterProcess(users, settings, oid, order, now)
                /\ orders' = [orders EXCEPT ![oid].order_status = "paid",
                                            ![oid].paid_at = now,
                                            ![oid].payment_status = "paid"]
        /\ UNCHANGED <<now, settings, transactions, withdrawals, tasks>>

\* PUT /api/orders/{order_id}/status?status=cancelled
OrderCancelled(oid) ==
    LET order == orders[oid]
        after == IF WithinCancelWindow(order, now)
                 THEN ReverseLoop(commissions, users,
                                  FindByOrder(commissions, oid), now)
                 ELSE <<commissions, users>>
    IN  /\ oid \in DOMAIN orders
        /\ commissions' = after[1]
        /\ users' = after[2]
        /\ orders' = [orders EXCEPT ![oid].order_status = "cancelled",
                                    ![oid].cancelled_at = now]
        /\ UNCHANGED <<now, settings, transactions, withdrawals, tasks>>

update_order_status(oid, status) ==
    CASE status = "paid" -> OrderPaid(oid)
      [] status = "cancelled" -> OrderCancelled(oid)

\* the scheduled job, also POST /api/admin/run-job/release_commissions
release_commissions_job ==
    LET after == JobLoop(commissions, users,
                         FindEligible(commissions, now, JobReleaseLimit), now)
    IN  /\ commissions' = after[1]
        /\ users' = after[2]
        /\ UNCHANGED <<now, settings, orders, transactions, withdrawals, tasks>>

\* POST /api/admin/process-commissions
process_blocked_commissions ==
    LET after == AdminLoop(commissions, users, transactions,
                           FindEligible(commissions, now, AdminReleaseLimit), now)
    IN  /\ commissions' = after[1]
        /\ users' = after[2]
        /\ transactions' = after[3]
        /\ UNCHANGED <<now, settings, orders, withdrawals, tasks>>

\* the scheduled job, also POST /api/admin/run-job/check_qualifications
check_qualifications_job ==
    /\ users' = ResetVolumes(JobQualifyLoop(users, FindResellers(users),
                                            now, settings))
    /\ UNCHANGED <<now, settings, orders, commissions, transactions, withdrawals,
                   tasks>>

\* POST /api/admin/check-qualifications
check_qualifications ==
    /\ users' = ResetVolumes(AdminQualifyLoop(users, FindResellers(users),
                                              now, settings))
    /\ UNCHANGED <<now, settings, orders, commissions, transactions, withdrawals,
                   tasks>>

\* POST /api/wallet/withdraw
WithdrawalAmounts == {50, 100}

request_withdrawal(uid, amount) ==
    /\ uid \in DOMAIN users
    /\ amount >= settings.min_withdrawal_amount
    /\ amount <= users[uid].available_balance
    /\ users[uid].bank_info
    /\ withdrawals' = Append(withdrawals,
                             [user_id |-> uid, amount |-> amount, status |-> "pending"])
    /\ users' = IncAvailable(users, uid, -amount)
    /\ transactions' = Append(transactions,
                              [ user_id |-> uid,
                                type |-> "withdrawal_request",
                                amount |-> -amount,
                                reference_id |-> Len(withdrawals) + 1 ])
    /\ UNCHANGED <<now, settings, orders, commissions, tasks>>

\* time passes: the clock is observed every DaysPerTick days
Tick ==
    /\ now < MaxTicks * DaysPerTick
    /\ now' = now + DaysPerTick
    /\ UNCHANGED <<store, tasks>>

(***************************************************************************)
(* Specification of the engine with every handler run to completion.       *)
(***************************************************************************)
UserStatuses == {"active", "suspended"}

\* the orders collection after one POST /api/orders by the client cl, with the
\* referral code of u1 or with that of a client; referrer_type is the
\* referrer's role at that time
InitOrders(us) ==
    { [ o \in {"o1"} |->
          NewOrder("cl", 1000, "u1", ACCESS_LEVELS[us["u1"].access_level]) ],
      [ o \in {"o1"} |->
          NewOrder("cl", 1000, "cl", ACCESS_LEVELS[us["cl"].access_level]) ] }

Init ==
    /\ now = 0
    /\ settings \in {default_settings, custom_settings}
    /\ users \in { ChainUsers(l1, s1, s2, s3) :
                      l1 \in {3, 4}, s1 \in UserStatuses, s2 \in UserStatuses,
                      s3 \in UserStatuses }
    /\ orders \in InitOrders(users)
    /\ commissions = <<>>
    /\ transactions = <<>>
    /\ withdrawals = <<>>
    /\ tasks = NoTasks

Next ==
    \/ \E oid \in DOMAIN orders : \E status \in {"paid", "cancelled"} :
          update_order_status(oid, status)
    \/ release_commissions_job
    \/ process_blocked_commissions
    \/ Tick

Spec == Init /\ [][Next]_vars

\* The scheduler (lifespan, lines 209-215) starts release_commissions_job
\* every day: a sweep that has something to release is eventually run.
SpecLive == Init /\ [][Next]_vars /\ WF_vars(release_commissions_job)

(***************************************************************************)
(* The engine with withdrawal requests.                                    *)
(***************************************************************************)
NextWallet ==
    \/ \E oid \in DOMAIN orders : \E status \in {"paid", "cancelled"} :
          update_order_status(oid, status)
    \/ release_commissions_job
    \/ process_blocked_commissions
    \/ \E uid \in DOMAIN users : \E amount \in WithdrawalAmounts :
          request_withdrawal(uid, amount)
    \/ Tick

SpecWallet == Init /\ [][NextWallet]_vars

(***************************************************************************)
(* Handlers that overlap in time: every await of a handler is one step, and *)
(* the steps of the invocations in flight interleave.  A task holds the     *)
(* local variables of one invocation.                                       *)
(***************************************************************************)
\* the task after the iteration over Head(snapshot): the loop's next
\* iteration at pc `again`, or the handler's end
NextIteration(task, again) ==
    IF Tail(task.snapshot) = <<>> THEN Idle
    ELSE [task EXCEPT !.snapshot = Tail(@), !.pc = again]

\* release_commissions_job, lines 61-67: reads the clock and the eligible set
JobFind(t) ==
    LET snapshot == FindEligible(commissions, now, JobReleaseLimit)
    IN  /\ tasks[t] = Idle
        /\ tasks' = [tasks EXCEPT ![t] =
                        IF snapshot = <<>> THEN Idle
                        ELSE [ op |-> "release_commissions_job", pc |-> "set_status",
                               now |-> now, snapshot |-> snapshot,
                               order_id |-> None ]]
        /\ UNCHANGED <<now, store>>

\* lines 72-75: the status write, whatever the status now is
JobSetStatus(t) ==
    /\ tasks[t].op = "release_commissions_job"
    /\ tasks[t].pc = "set_status"
    /\ commissions' = SetAvailable(commissions, Head(tasks[t].snapshot), tasks[t].now)
    /\ tasks' = [tasks EXCEPT ![t].pc = "move"]
    /\ UNCHANGED <<now, settings, users, orders, transactions, withdrawals>>

\* lines 78-87: the balance move, with the amount of the document as read
JobMove(t) ==
    LET id == Head(tasks[t].snapshot)
    IN  /\ tasks[t].op = "release_commissions_job"
        /\ tasks[t].pc = "move"
        /\ users' = MoveToAvailable(users, commissions[id].user_id,
                                    commissions[id].amount)
        /\ tasks' = [tasks EXCEPT ![t] = NextIteration(@, "set_status")]
        /\ UNCHANGED <<now, settings, orders, commissions, transactions, withdrawals>>

\* process_blocked_commissions, lines 2049-2055
AdminFind(t) ==
    LET snapshot == FindEligible(commissions, now, AdminReleaseLimit)
    IN  /\ tasks[t] = Idle
        /\ tasks' = [tasks EXCEPT ![t] =
                        IF snapshot = <<>> THEN Idle
                        ELSE [ op |-> "process_blocked_commissions", pc |-> "move",
                               now |-> now, snapshot |-> snapshot,
                               order_id |-> None ]]
        /\ UNCHANGED <<now, store>>

\* lines 2061-2069
AdminMove(t) ==
    LET id == Head(tasks[t].snapshot)
    IN  /\ tasks[t].op = "process_blocked_commissions"
        /\ tasks[t].pc = "move"
        /\ users' = MoveToAvailable(users, commissions[id].user_id,
                                    commissions[id].amount)
        /\ tasks' = [tasks EXCEPT ![t].pc = "set_status"]
        /\ UNCHANGED <<now, settings, orders, commissions, transactions, withdrawals>>

\* lines 2071-2074
AdminSetStatus(t) ==
    /\ tasks[t].op = "process_blocked_commissions"
    /\ tasks[t].pc = "set_status"
    /\ commissions' = SetAvailable(commissions, Head(tasks[t].snapshot), tasks[t].now)
    /\ tasks' = [tasks EXCEPT ![t].pc = "insert_transaction"]
    /\ UNCHANGED <<now, settings, users, orders, transactions, withdrawals>>

\* lines 2076-2086
AdminInsertTransaction(t) ==
    /\ tasks[t].op = "process_blocked_commissions"
    /\ tasks[t].pc = "insert_transaction"
    /\ transactions' = Append(transactions,
                              ReleaseTransaction(commissions, Head(tasks[t].snapshot)))
    /\ tasks' = [tasks EXCEPT ![t] = NextIteration(@, "move")]
    /\ UNCHANGED <<now, settings, users, orders, commissions, withdrawals>>

\* update_order_status with status=cancelled, lines 1269-1294: reads the order
\* and the clock, and decides whether to reverse
CancelReadOrder(t, oid) ==
    /\ tasks[t] = Idle
    /\ oid \in DOMAIN orders
    /\ tasks' = [tasks EXCEPT ![t] =
                    [ op |-> "update_order_status",
                      pc |-> IF WithinCancelWindow(orders[oid], now)
                             THEN "find" ELSE "update_order",
                      now |-> now, snapshot |-> <<>>, order_id |-> oid ]]
    /\ UNCHANGED <<now, store>>

\* reverse_order_commissions, line 1475
CancelFind(t) ==
    LET snapshot == FindByOrder(commissions, tasks[t].order_id)
    IN  /\ tasks[t].op = "update_order_status"
        /\ tasks[t].pc = "find"
        /\ tasks' = [tasks EXCEPT ![t].snapshot = snapshot,
                                  ![t].pc = IF snapshot = <<>> THEN "update_order"
                                            ELSE "debit"]
        /\ UNCHANGED <<now, store>>

\* lines 1478-1487: the debit chosen by the status as read at line 1475
CancelDebit(t) ==
    /\ tasks[t].op = "update_order_status"
    /\ tasks[t].pc = "debit"
    /\ users' = Debit(users, Head(tasks[t].snapshot))
    /\ tasks' = [tasks EXCEPT ![t].pc = "set_reversed"]
    /\ UNCHANGED <<now, settings, orders, commissions, transactions, withdrawals>>

\* lines 1489-1492
CancelSetReversed(t) ==
    /\ tasks[t].op = "update_order_status"
    /\ tasks[t].pc = "set_reversed"
    /\ commissions' = SetReversed(commissions, Head(tasks[t].snapshot).commission_id, now)
    /\ tasks' = [tasks EXCEPT ![t] =
                    IF Tail(@.snapshot) = <<>>
                    THEN [@ EXCEPT !.snapshot = <<>>, !.pc = "update_order"]
                    ELSE [@ EXCEPT !.snapshot = Tail(@), !.pc = "debit"]]
    /\ UNCHANGED <<now, settings, users, orders, transactions, withdrawals>>

\* line 1297
CancelUpdateOrder(t) ==
    /\ tasks[t].op = "update_order_status"
    /\ tasks[t].pc = "update_order"
    /\ orders' = [orders EXCEPT ![tasks[t].order_id].order_status = "cancelled",
                                ![tasks[t].order_id].cancelled_at = tasks[t].now]
    /\ tasks' = [tasks EXCEPT ![t] = Idle]
    /\ UNCHANGED <<now, settings, users, commissions, transactions, withdrawals>>

\* days pass between requests, not within one
TickIdle == tasks = NoTasks /\ Tick

(***************************************************************************)
(* Overlapping release sweeps (scheduler and manual triggers).             *)
(***************************************************************************)
NextSweeps ==
    \/ \E oid \in DOMAIN orders : OrderPaid(oid)
    \/ \E t \in TaskIds : JobFind(t)
    \/ \E t \in TaskIds : JobSetStatus(t)
    \/ \E t \in TaskIds : JobMove(t)
    \/ \E t \in TaskIds : AdminFind(t)
    \/ \E t \in TaskIds : AdminMove(t)
    \/ \E t \in TaskIds : AdminSetStatus(t)
    \/ \E t \in TaskIds : AdminInsertTransaction(t)
    \/ TickIdle

SpecSweeps == Init /\ [][NextSweeps]_vars

(***************************************************************************)
(* Overlapping release sweeps and order cancellations.                     *)
(***************************************************************************)
\* t1 runs the sweeps and t2 the cancellations
NextConc ==
    \/ \E oid \in DOMAIN orders : OrderPaid(oid)
    \/ JobFind("t1")
    \/ JobSetStatus("t1")
    \/ JobMove("t1")
    \/ AdminFind("t1")
    \/ AdminMove("t1")
    \/ AdminSetStatus("t1")
    \/ AdminInsertTransaction("t1")
    \/ \E oid \in DOMAIN orders : CancelReadOrder("t2", oid)
    \/ CancelFind("t2")
    \/ CancelDebit("t2")
    \/ CancelSetReversed("t2")
    \/ CancelUpdateOrder("t2")
    \/ TickIdle

\* the store before the first request: the chain with u2 suspended, so that a
\* reseller-referred order earns two commissions
InitConc ==
    /\ now = 0
    /\ settings \in {default_settings, custom_settings}
    /\ users = ChainUsers(4, "active", "suspended", "active")
    /\ orders \in InitOrders(users)
    /\ commissions = <<>>
    /\ transactions = <<>>
    /\ withdrawals = <<>>
    /\ tasks = NoTasks

SpecConc == InitConc /\ [][NextConc]_vars

(***************************************************************************)
(* Volume crediting and qualification: order-paid processing with buyers    *)
(* of every role and both qualification evaluations, over half-years.       *)
(***************************************************************************)
\* the qualification evaluations are months apart: the clock is observed
\* every DaysPerQualTick days
TickMonths ==
    /\ now < MaxQualTicks * DaysPerQualTick
    /\ now' = now + DaysPerQualTick
    /\ UNCHANGED <<store, tasks>>

AncestorStatuses == {"active", "suspended", "cancelled"}

\* the chain with u1 active, its ancestors in any status (PUT and DELETE
\* /api/users/{user_id} set it), the root u4 with or without a
\* last_qualification (a user made reseller by PUT /api/users/{user_id} has
\* none), and an ambassador am
VolumeUsers(l1, s2, s3, q4) ==
    [ u \in {"u1", "u2", "u3", "u4", "cl", "am"} |->
        CASE u = "am" -> NewUser(6, None, 0, "active")
          [] u = "u4" -> [NewUser(4, None, 0, "active") EXCEPT
                             !.last_qualification = q4]
          [] OTHER -> ChainUsers(l1, "active", s2, s3)[u] ]

\* <<buyer, owner of the referral code sent with the order>>
BuyerReferrer ==
    { <<"u1", None>>, <<"u1", "u2">>, <<"u1", "am">>, <<"cl", "u1">>,
      <<"cl", None>> }

InitVolumeOrders(us) ==
    { [ o \in {"o1"} |->
          NewOrder(p[1], 1000, p[2],
                   IF p[2] = None THEN None
                   ELSE ACCESS_LEVELS[us[p[2]].access_level]) ] :
      p \in BuyerReferrer }

InitVolumes ==
    /\ now = 0
    /\ settings = default_settings
    /\ users \in { VolumeUsers(l1, s2, s3, q4) :
                      l1 \in {3, 4}, s2 \in AncestorStatuses,
                      s3 \in AncestorStatuses, q4 \in {0, NoTime} }
    /\ orders \in InitVolumeOrders(users)
    /\ commissions = <<>>
    /\ transactions = <<>>
    /\ withdrawals = <<>>
    /\ tasks = NoTasks

\* an order is marked paid while its buyer's personal_volume is below MaxVolume
NextVolumes ==
    \/ \E oid \in DOMAIN orders :
          /\ users[orders[oid].user_id].personal_volume < MaxVolume
          /\ OrderPaid(oid)
    \/ check_qualifications_job
    \/ check_qualifications
    \/ TickMonths

SpecVolumes == InitVolumes /\ [][NextVolumes]_vars

(***************************************************************************)
(* The sponsor network: registration, conversion and the qualification job. *)
(***************************************************************************)
\* the user id that the next insert into db.users gets
NextUserId(us) == UserIds[Cardinality(DOMAIN us) + 1]

\* POST /api/auth/register; a referral code is identified with its owner's
\* user_id (both are unique keys of db.users)
register(access_level, sponsor_code) ==
    LET with_sponsor == sponsor_code # None /\ access_level = 4
        id == NextUserId(users)
    IN  /\ Cardinality(DOMAIN users) < MaxUsers
        /\ with_sponsor => /\ sponsor_code \in DOMAIN users
                           /\ users[sponsor_code].access_level \in {3, 4}
        /\ users' =
             [ u \in DOMAIN users \cup {id} |->
                 IF u = id
                 THEN [ NewUser(access_level,
                                IF with_sponsor THEN sponsor_code ELSE None,
                                IF with_sponsor
                                THEN users[sponsor_code].hierarchy_level + 1
                                ELSE 0,
                                "active")
                        EXCEPT !.last_qualification =
                                   IF access_level = 4 THEN now ELSE NoTime,
                               !.bank_info = FALSE ]
                 ELSE users[u] ]
        /\ UNCHANGED <<now, settings, orders, commissions, transactions,
                       withdrawals, tasks>>

\* POST /api/users/convert
convert_user(user_id, new_access_level, sponsor_code) ==
    /\ user_id \in DOMAIN users
    /\ new_access_level = 4 =>
          /\ sponsor_code # None
          /\ sponsor_code \in DOMAIN users
          /\ users[sponsor_code].access_level \in {3, 4}
          /\ users[sponsor_code].hierarchy_level + 1 <= MaxDepth
    /\ new_access_level = 3 => users[user_id].access_level = 4
    /\ users' =
         IF new_access_level = 4
         THEN [users EXCEPT
                 ![user_id].access_level = new_access_level,
                 ![user_id].sponsor_id = sponsor_code,
                 ![user_id].hierarchy_level =
                     users[sponsor_code].hierarchy_level + 1,
                 ![user_id].last_qualification = now]
         ELSE [users EXCEPT ![user_id].access_level = new_access_level]
    /\ UNCHANGED <<now, settings, orders, commissions, transactions,
                   withdrawals, tasks>>

\* the store after the registration of a first reseller, which has no sponsor
InitNetwork ==
    /\ now = 0
    /\ settings = default_settings
    /\ users = [ u \in {NextUserId(<<>>)} |->
                   [NewUser(4, None, 0, "active") EXCEPT !.bank_info = FALSE] ]
    /\ orders = <<>>
    /\ commissions = <<>>
    /\ transactions = <<>>
    /\ withdrawals = <<>>
    /\ tasks = NoTasks

NextNetwork ==
    \/ \E access_level \in {4, 5} : \E sponsor_code \in DOMAIN users \cup {None} :
          register(access_level, sponsor_code)
    \/ \E user_id \in DOMAIN users : \E new_access_level \in {3, 4} :
          \E sponsor_code \in DOMAIN users \cup {None} :
             convert_user(user_id, new_access_level, sponsor_code)
    \/ check_qualifications_job
    \/ TickMonths

SpecNetwork == InitNetwork /\ [][NextNetwork]_vars

(***************************************************************************)
(* The qualification job over a sponsor forest, one reseller evaluation per *)
(* step.                                                                    *)
(***************************************************************************)
Resellers == {"u4", "u3", "u2", "u1"}

\* the number of sponsor links from uid to its root in the sponsor map f
RECURSIVE DepthIn(_, _, _)
DepthIn(f, uid, fuel) ==
    IF f[uid] = None \/ fuel = 0 THEN 0
    ELSE 1 + DepthIn(f, f[uid], fuel - 1)

\* TRUE when no member of the sponsor map f is its own ancestor
RECURSIVE ReachesRoot(_, _, _)
ReachesRoot(f, uid, fuel) ==
    IF f[uid] = None THEN TRUE
    ELSE IF fuel = 0 THEN FALSE
    ELSE ReachesRoot(f, f[uid], fuel - 1)

\* the sponsor forests over the four resellers that registrations and
\* conversions build, top-down: every hierarchy_level is the sponsor's + 1
Forests ==
    { f \in [Resellers -> Resellers \cup {None}] :
        \A u \in Resellers : ReachesRoot(f, u, Cardinality(Resellers)) }

\* the resellers of the forest f, those of `buyers` with a month's purchases
ForestUsers(f, buyers) ==
    [ u \in Resellers |->
        [ NewUser(4, f[u], DepthIn(f, u, Cardinality(Resellers)), "active")
          EXCEPT !.personal_volume = IF u \in buyers THEN MaxVolume ELSE 0 ] ]

InitSplice ==
    /\ now = 0
    /\ settings = default_settings
    /\ users \in { ForestUsers(f, buyers) :
                      f \in Forests, buyers \in {{}, {"u3"}, {"u2"}} }
    /\ orders = <<>>
    /\ commissions = <<>>
    /\ transactions = <<>>
    /\ withdrawals = <<>>
    /\ tasks = NoTasks

\* check_qualifications_job, lines 105-114: reads the clock and the resellers
QualFind(t) ==
    LET snapshot == FindResellers(users)
    IN  /\ tasks[t] = Idle
        /\ tasks' = [tasks EXCEPT ![t] =
                        [ op |-> "check_qualifications_job",
                          pc |-> IF snapshot = <<>> THEN "reset" ELSE "evaluate",
                          now |-> now, snapshot |-> snapshot,
                          order_id |-> None ]]
        /\ UNCHANGED <<now, store>>

\* lines 120-166: one iteration of the loop
QualEvaluate(t) ==
    /\ tasks[t].op = "check_qualifications_job"
    /\ tasks[t].pc = "evaluate"
    /\ users' = JobEvaluate(users, Head(tasks[t].snapshot), tasks[t].now, settings)
    /\ tasks' = [tasks EXCEPT ![t] =
                    IF Tail(@.snapshot) = <<>>
                    THEN [@ EXCEPT !.snapshot = <<>>, !.pc = "reset"]
                    ELSE [@ EXCEPT !.snapshot = Tail(@)]]
    /\ UNCHANGED <<now, settings, orders, commissions, transactions, withdrawals>>

\* lines 168-172: the volume reset that ends the job
QualReset(t) ==
    /\ tasks[t].op = "check_qualifications_job"
    /\ tasks[t].pc = "reset"
    /\ users' = ResetVolumes(users)
    /\ tasks' = [tasks EXCEPT ![t] = Idle]
    /\ UNCHANGED <<now, settings, orders, commissions, transactions, withdrawals>>

\* months pass between runs of the job, not within one
TickMonthsIdle == tasks = NoTasks /\ TickMonths

NextSplice ==
    \/ QualFind("t1")
    \/ QualEvaluate("t1")
    \/ QualReset("t1")
    \/ TickMonthsIdle

SpecSplice == InitSplice /\ [][NextSplice]_vars

(***************************************************************************)
(* Referrals: orders are created with a referral code, roles change between *)
(* order creation and payment, and orders are marked paid.                  *)
(***************************************************************************)
\* order ids in the order of their insertion into db.orders
OrderIds == << "o1", "o2" >>

\* POST /api/orders by `buyer` with a cart of subtotal 1000; a referral code
\* is identified with its owner's user_id
create_order(buyer, referral_code) ==
    LET found == referral_code # None /\ referral_code \in DOMAIN users
        id    == OrderIds[Cardinality(DOMAIN orders) + 1]
    IN  /\ buyer \in DOMAIN users
        /\ Cardinality(DOMAIN orders) < MaxOrders
        /\ orders' =
             [ o \in DOMAIN orders \cup {id} |->
                 IF o = id
                 THEN NewOrder(buyer, 1000,
                               IF found THEN referral_code ELSE None,
                               IF found
                               THEN ACCESS_LEVELS[users[referral_code].access_level]
                               ELSE None)
                 ELSE orders[o] ]
        /\ UNCHANGED <<now, settings, users, commissions, transactions,
                       withdrawals, tasks>>

\* POST /api/users/ambassador-commission
set_ambassador_commission(user_id, commission_rate) ==
    /\ user_id \in DOMAIN users
    /\ users[user_id].access_level = 6
    /\ users' = [users EXCEPT ![user_id].ambassador_commission = commission_rate]
    /\ UNCHANGED <<now, settings, orders, commissions, transactions,
                   withdrawals, tasks>>

\* the root reseller u4, its downline u3, the client cl and the ambassador am
ReferralUsers(s3) ==
    [ u \in {"u4", "u3", "cl", "am"} |->
        CASE u = "u4" -> NewUser(4, None, 0, "active")
          [] u = "u3" -> NewUser(4, "u4", 1, s3)
          [] u = "cl" -> NewUser(5, None, 0, "active")
          [] u = "am" -> NewUser(6, None, 0, "active") ]

InitReferral ==
    /\ now = 0
    /\ settings = custom_settings
    /\ users \in { ReferralUsers(s3) : s3 \in UserStatuses }
    /\ orders = <<>>
    /\ commissions = <<>>
    /\ transactions = <<>>
    /\ withdrawals = <<>>
    /\ tasks = NoTasks

\* the client cl is converted to supervisor, reseller or ambassador; an order
\* is marked paid while its buyer's personal_volume is below MaxVolume
NextReferral ==
    \/ \E buyer \in {"u3", "cl"} : \E referral_code \in DOMAIN users \cup {None} :
          create_order(buyer, referral_code)
    \/ \E new_access_level \in {2, 4, 6} : \E sponsor_code \in {"u3", None} :
          convert_user("cl", new_access_level, sponsor_code)
    \/ \E user_id \in {"cl", "am"} : set_ambassador_commission(user_id, 4)
    \/ \E oid \in DOMAIN orders :
          /\ users[orders[oid].user_id].personal_volume < MaxVolume
          /\ OrderPaid(oid)
    \/ Tick

SpecReferral == InitReferral /\ [][NextReferral]_vars

(***************************************************************************)
(* Concurrent order-paid processing: update_order_status with status=paid  *)
(* and its process_order_commissions, one store operation per step, two    *)
(* requests in flight.                                                     *)
(***************************************************************************)
\* CreditUser as a write of the balance computed from the document read
\* before
CreditUser_ReadModifyWrite(us, read_doc, uid, amount) ==
    IF uid \in DOMAIN us
    THEN [us EXCEPT ![uid].blocked_balance = read_doc.blocked_balance + amount]
    ELSE us

\* update_one({"user_id": uid}, {"$inc": {"blocked_balance": amount}}) after
\* the insert of a commission; read_doc is the document of uid that the
\* handler read before, which the update does not use
CreditUser(us, read_doc, uid, amount) == IncBlocked(us, uid, amount)

\* the percentage of the commission that the task is creating
PayPercent(task, order, st) ==
    IF order.referrer_type = "embaixador"
    THEN Head(task.snapshot).ambassador_commission
    ELSE IF order.referrer_type = "cliente"
    THEN st.client_referral_commission
    ELSE commission_rates(st)[task.level + 1]

\* the position of the handler after iteration `level` - 1 of
\* "for level in range(3)", with current_user_id = cur
LoopNext(level, cur) ==
    IF level >= 3 \/ cur = None THEN "find_buyer" ELSE "find_user"

\* lines 1267-1318: reads the order, stamps paid_at and enters
\* process_order_commissions, which returns when the order has no referrer.
\* The order is marked paid while it is still pending.
PayStart(t, oid) ==
    /\ tasks[t] = Idle
    /\ oid \in DOMAIN orders
    /\ orders[oid].order_status = "pending"
    /\ tasks' = [tasks EXCEPT ![t] =
                    [ op |-> "update_order_status",
                      pc |-> IF orders[oid].referrer_id = None
                             THEN "update_order" ELSE "find_referrer",
                      now |-> now, snapshot |-> <<>>, order_id |-> oid,
                      level |-> 0, current_user_id |-> None ]]
    /\ UNCHANGED <<now, store>>

\* lines 1320-1328, 1354, 1379-1387: find_one of the referrer and the branch
\* on referrer_type
PayFindReferrer(t) ==
    LET order       == orders[tasks[t].order_id]
        referrer_id == order.referrer_id
    IN  /\ tasks[t].op = "update_order_status"
        /\ tasks[t].pc = "find_referrer"
        /\ tasks' = [tasks EXCEPT ![t] =
                        IF referrer_id \notin DOMAIN users
                        THEN [@ EXCEPT !.pc = "update_order"]
                        ELSE IF RaisesOnRate(users, order) THEN Idle
                        ELSE IF order.referrer_type \in {"embaixador", "cliente"}
                        THEN [@ EXCEPT !.pc = "insert",
                                       !.snapshot = <<users[referrer_id]>>,
                                       !.current_user_id = referrer_id]
                        ELSE IF order.referrer_type \in {"revendedor", "lider"}
                        THEN [@ EXCEPT !.pc = "find_user",
                                       !.current_user_id = referrer_id]
                        ELSE [@ EXCEPT !.pc = "find_buyer"]]
        /\ UNCHANGED <<now, store>>

\* lines 1391-1395: find_one of current_user_id; a missing or inactive user
\* uses up the level
PayFindUser(t) ==
    LET cur == tasks[t].current_user_id
    IN  /\ tasks[t].op = "update_order_status"
        /\ tasks[t].pc = "find_user"
        /\ tasks' = [tasks EXCEPT ![t] =
                        IF cur \notin DOMAIN users
                        THEN [@ EXCEPT !.level = @ + 1,
                                       !.current_user_id = None,
                                       !.pc = LoopNext(tasks[t].level + 1, None)]
                        ELSE IF users[cur].status # "active"
                        THEN [@ EXCEPT !.level = @ + 1,
                                       !.current_user_id = users[cur].sponsor_id,
                                       !.pc = LoopNext(tasks[t].level + 1,
                                                       users[cur].sponsor_id)]
                        ELSE [@ EXCEPT !.snapshot = <<users[cur]>>,
                                       !.pc = "insert"]]
        /\ UNCHANGED <<now, store>>

\* lines 1333-1345, 1358-1370, 1400-1412: insert_one of the commission
PayInsert(t) ==
    LET task  == tasks[t]
        order == orders[task.order_id]
        tiered == order.referrer_type \in {"revendedor", "lider"}
    IN  /\ task.op = "update_order_status"
        /\ task.pc = "insert"
        /\ commissions' =
              Append(commissions,
                     NewCommission(task.order_id, task.current_user_id,
                                   IF tiered THEN task.level + 1 ELSE 0,
                                   PayPercent(task, order, settings),
                                   order.commission_base,
                                   now + settings.bonus_block_days, now))
        /\ tasks' = [tasks EXCEPT ![t].pc = "credit"]
        /\ UNCHANGED <<now, settings, users, orders, transactions, withdrawals>>

\* lines 1348-1351, 1372-1375, 1414-1420: the credit of blocked_balance, and
\* the move up the chain
PayCredit(t) ==
    LET task   == tasks[t]
        order  == orders[task.order_id]
        tiered == order.referrer_type \in {"revendedor", "lider"}
        doc    == Head(task.snapshot)
    IN  /\ task.op = "update_order_status"
        /\ task.pc = "credit"
        /\ users' = CreditUser(users, doc, task.current_user_id,
                               Amount(order.commission_base,
                                      PayPercent(task, order, settings)))
        /\ tasks' = [tasks EXCEPT ![t] =
                        IF tiered
                        THEN [@ EXCEPT !.level = @ + 1,
                                       !.current_user_id = doc.sponsor_id,
                                       !.snapshot = <<>>,
                                       !.pc = LoopNext(task.level + 1, doc.sponsor_id)]
                        ELSE [@ EXCEPT !.snapshot = <<>>, !.pc = "find_buyer"]]
        /\ UNCHANGED <<now, settings, orders, commissions, transactions, withdrawals>>

\* lines 1425-1426: find_one of the buyer
PayFindBuyer(t) ==
    LET buyer == orders[tasks[t].order_id].user_id
    IN  /\ tasks[t].op = "update_order_status"
        /\ tasks[t].pc = "find_buyer"
        /\ tasks' = [tasks EXCEPT ![t] =
                        IF buyer \in DOMAIN users
                           /\ users[buyer].access_level \in {3, 4}
                        THEN [@ EXCEPT !.snapshot = <<users[buyer]>>,
                                       !.pc = "personal_volume"]
                        ELSE [@ EXCEPT !.pc = "update_order"]]
        /\ UNCHANGED <<now, store>>

\* lines 1427-1433: the buyer's personal_volume, and the sponsor of the
\* document read at line 1425
PayPersonalVolume(t) ==
    LET task  == tasks[t]
        order == orders[task.order_id]
        current_sponsor_id == Head(task.snapshot).sponsor_id
    IN  /\ task.op = "update_order_status"
        /\ task.pc = "personal_volume"
        /\ users' = IncPersonalVolume(users, order.user_id, order.commission_base)
        /\ tasks' = [tasks EXCEPT ![t] =
                        [@ EXCEPT !.snapshot = <<>>,
                                  !.current_user_id = current_sponsor_id,
                                  !.pc = IF current_sponsor_id = None
                                         THEN "update_order" ELSE "team_volume"]]
        /\ UNCHANGED <<now, settings, orders, commissions, transactions, withdrawals>>

\* lines 1435-1438: the $inc of team_volume
PayTeamVolume(t) ==
    LET task == tasks[t]
    IN  /\ task.op = "update_order_status"
        /\ task.pc = "team_volume"
        /\ users' = IncTeamVolume(users, task.current_user_id,
                                  orders[task.order_id].commission_base)
        /\ tasks' = [tasks EXCEPT ![t].pc = "find_sponsor"]
        /\ UNCHANGED <<now, settings, orders, commissions, transactions, withdrawals>>

\* lines 1439-1441: find_one of the sponsor just credited, and the loop test
PayFindSponsor(t) ==
    LET cur  == tasks[t].current_user_id
        next == IF cur \in DOMAIN users THEN users[cur].sponsor_id ELSE None
    IN  /\ tasks[t].op = "update_order_status"
        /\ tasks[t].pc = "find_sponsor"
        /\ tasks' = [tasks EXCEPT ![t] =
                        [@ EXCEPT !.current_user_id = next,
                                  !.pc = IF next = None
                                         THEN "update_order" ELSE "team_volume"]]
        /\ UNCHANGED <<now, store>>

\* line 1297, with update_data as built at lines 1273-1277
PayUpdateOrder(t) ==
    /\ tasks[t].op = "update_order_status"
    /\ tasks[t].pc = "update_order"
    /\ orders' = [orders EXCEPT ![tasks[t].order_id].order_status = "paid",
                                ![tasks[t].order_id].paid_at = tasks[t].now,
                                ![tasks[t].order_id].payment_status = "paid"]
    /\ tasks' = [tasks EXCEPT ![t] = Idle]
    /\ UNCHANGED <<now, settings, users, commissions, transactions, withdrawals>>

\* two orders of 1000: o1 bought by the client cl with the code of u1, o2
\* bought by the reseller u1 with the code of u2, of cl, or with none
InitPayOrders(us) ==
    { [ o \in {"o1", "o2"} |->
          IF o = "o1"
          THEN NewOrder("cl", 1000, "u1", ACCESS_LEVELS[us["u1"].access_level])
          ELSE NewOrder("u1", 1000, r,
                        IF r = None THEN None
                        ELSE ACCESS_LEVELS[us[r].access_level]) ] :
      r \in {"u2", "cl", None} }

InitPay ==
    /\ now = 0
    /\ settings = custom_settings
    /\ users \in { ChainUsers(4, "active", "active", s3) : s3 \in UserStatuses }
    /\ orders \in InitPayOrders(users)
    /\ commissions = <<>>
    /\ transactions = <<>>
    /\ withdrawals = <<>>
    /\ tasks = NoTasks

NextPay ==
    \/ \E t \in TaskIds : \E oid \in DOMAIN orders : PayStart(t, oid)
    \/ \E t \in TaskIds : PayFindReferrer(t)
    \/ \E t \in TaskIds : PayFindUser(t)
    \/ \E t \in TaskIds : PayInsert(t)
    \/ \E t \in TaskIds : PayCredit(t)
    \/ \E t \in TaskIds : PayFindBuyer(t)
    \/ \E t \in TaskIds : PayPersonalVolume(t)
    \/ \E t \in TaskIds : PayTeamVolume(t)
    \/ \E t \in TaskIds : PayFindSponsor(t)
    \/ \E t \in TaskIds : PayUpdateOrder(t)
    \/ TickIdle

SpecPay == InitPay /\ [][NextPay]_vars

(***************************************************************************)
(* Administration of users: PUT /api/users/{user_id} by an administrator,  *)
(* with orders created and paid around it.                                 *)
(***************************************************************************)
\* update_user by an administrator; `data` holds the fields of the request
\* body that are provided, among access_level and status.  The update stamps
\* updated_at and touches no other field: not sponsor_id, not
\* last_qualification, not ambassador_commission.
update_user(user_id, data) ==
    LET update_data == data @@ [updated_at |-> now]
    IN  /\ user_id \in DOMAIN users
        /\ DOMAIN data # {}
        /\ users' = [users EXCEPT ![user_id] = update_data @@ @]
        /\ UNCHANGED <<now, settings, orders, commissions, transactions,
                       withdrawals, tasks>>

\* the administrator sets the status of the client cl or of the ambassador
\* am; the client cl orders with the code of any user
NextAdmin ==
    \/ \E referral_code \in DOMAIN users : create_order("cl", referral_code)
    \/ \E user_id \in {"cl", "am"} :
       \E status \in {"active", "suspended", "cancelled"} :
          update_user(user_id, [status |-> status])
    \/ \E oid \in DOMAIN orders :
          /\ users[orders[oid].user_id].personal_volume < MaxVolume
          /\ OrderPaid(oid)
    \/ Tick

SpecAdmin == InitReferral /\ [][NextAdmin]_vars

(***************************************************************************)
(* Resellers made by the administrator's user update: a client registers,  *)
(* is given access level 4 by PUT /api/users/{user_id}, sponsors new        *)
(* resellers and orders, and the qualification job runs over half-years.    *)
(***************************************************************************)
InitUnstamped ==
    /\ now = 0
    /\ settings = default_settings
    /\ users = [ u \in {NextUserId(<<>>)} |->
                   [NewUser(5, None, 0, "active") EXCEPT !.bank_info = FALSE] ]
    /\ orders = <<>>
    /\ commissions = <<>>
    /\ transactions = <<>>
    /\ withdrawals = <<>>
    /\ tasks = NoTasks

NextUnstamped ==
    \/ \E sponsor_code \in DOMAIN users \cup {None} : register(4, sponsor_code)
    \/ \E user_id \in DOMAIN users : update_user(user_id, [access_level |-> 4])
    \/ \E buyer \in DOMAIN users : create_order(buyer, None)
    \/ \E oid \in DOMAIN orders :
          /\ users[orders[oid].user_id].personal_volume < MaxVolume
          /\ OrderPaid(oid)
    \/ check_qualifications_job
    \/ TickMonths

SpecUnstamped == InitUnstamped /\ [][NextUnstamped]_vars

(***************************************************************************)
(* Release sweeps interrupted by a store failure: one sweep at a time, one  *)
(* store operation per step, and a failure that ends the invocation between *)
(* two of its operations.                                                   *)
(***************************************************************************)
\* a store operation of the sweep in flight raises: release_commissions_job
\* logs the exception and returns (lines 99-100), process_blocked_commissions
\* lets it end the request; the writes already made stay
StoreFailure(t) ==
    /\ tasks[t].op \in {"release_commissions_job", "process_blocked_commissions"}
    /\ tasks' = [tasks EXCEPT ![t] = Idle]
    /\ UNCHANGED <<now, store>>

\* sweeps fail while every available_balance is below MaxBalance (a failure
\* of the admin sweep after its balance write leaves the commission eligible,
\* and every retry that fails moves the amount again)
NextCrash ==
    \/ \E oid \in DOMAIN orders : tasks = NoTasks /\ OrderPaid(oid)
    \/ JobFind("t1")
    \/ JobSetStatus("t1")
    \/ JobMove("t1")
    \/ AdminFind("t1")
    \/ AdminMove("t1")
    \/ AdminSetStatus("t1")
    \/ AdminInsertTransaction("t1")
    \/ /\ \A uid \in DOMAIN users : users[uid].available_balance < MaxBalance
       /\ StoreFailure("t1")
    \/ TickIdle

SpecCrash == Init /\ [][NextCrash]_vars

(***************************************************************************)
(* Properties.                                                             *)
(***************************************************************************)
\* the sum of the amounts of uid's commissions in status st
Held(comms, uid, st) ==
    SumSeq([ k \in 1..Len(comms) |->
               IF comms[k].user_id = uid /\ comms[k].status = st
               THEN comms[k].amount ELSE 0 ])

\* C1: when release sweeps overlap, every eligible commission is released
\* exactly once.  With order-paid processing and release sweeps as the only
\* operations, that is: whenever no sweep is in flight, each earner's
\* blocked_balance is the sum of its blocked commissions and its
\* available_balance the sum of its available commissions (an amount moved
\* twice leaves blocked_balance short and available_balance in excess).
C1_ReleasedExactlyOnce ==
    tasks = NoTasks =>
        \A uid \in DOMAIN users :
            /\ users[uid].blocked_balance = Held(commissions, uid, "blocked")
            /\ users[uid].available_balance = Held(commissions, uid, "available")

\* C2: a commission's status only changes blocked -> available,
\* blocked -> reversed or available -> reversed, and never changes once
\* reversed, in any interleaving of order-paid processing, release sweeps and
\* order cancellations.
C2_StatusTransitions ==
    [][ \A i \in 1..Len(commissions) :
          \/ commissions'[i].status = commissions[i].status
          \/ <<commissions[i].status, commissions'[i].status>> \in
                { <<"blocked", "available">>, <<"blocked", "reversed">>,
                  <<"available", "reversed">> } ]_vars

\* the sum of the amounts of uid's commissions of order oid in status st
HeldOfOrder(comms, oid, uid, st) ==
    SumSeq([ k \in 1..Len(comms) |->
               IF comms[k].order_id = oid /\ comms[k].user_id = uid
                  /\ comms[k].status = st
               THEN comms[k].amount ELSE 0 ])

\* C3: cancelling an order whose paid_at is set and at most 7 days old leaves
\* every commission of the order reversed, and has subtracted from each
\* earner's blocked_balance the amounts of its commissions of the order that
\* were blocked, and from its available_balance those that were available,
\* once each.
C3_CancelInWindowReverses ==
    [][ \A oid \in DOMAIN orders :
          ( /\ OrderCancelled(oid)
            /\ orders[oid].paid_at # NoTime
            /\ now - orders[oid].paid_at <= 7 )
          => /\ Len(commissions') = Len(commissions)
             /\ \A i \in 1..Len(commissions) :
                  commissions[i].order_id = oid
                      => commissions'[i].status = "reversed"
             /\ \A uid \in DOMAIN users :
                  /\ users'[uid].blocked_balance =
                        users[uid].blocked_balance
                            - HeldOfOrder(commissions, oid, uid, "blocked")
                  /\ users'[uid].available_balance =
                        users[uid].available_balance
                            - HeldOfOrder(commissions, oid, uid, "available") ]_vars

\* C3 witness: an order cancelled within 7 days of its payment, with one
\* commission reversed out of available_balance (it had been released) and
\* one reversed out of blocked_balance by the same cancellation.
C3_Witness ==
    \E oid \in DOMAIN orders :
        /\ orders[oid].order_status = "cancelled"
        /\ orders[oid].paid_at # NoTime
        /\ orders[oid].cancelled_at - orders[oid].paid_at <= 7
        /\ \E i, j \in 1..Len(commissions) :
              /\ commissions[i].order_id = oid /\ commissions[j].order_id = oid
              /\ commissions[i].status = "reversed"
              /\ commissions[j].status = "reversed"
              /\ commissions[i].released_at # NoTime
              /\ commissions[j].released_at = NoTime
              /\ commissions[i].reversed_at = orders[oid].cancelled_at
              /\ commissions[j].reversed_at = orders[oid].cancelled_at

\* C4: cancelling an order whose paid_at is absent or more than 7 days old
\* changes no commission and no user; only the order's order_status and
\* cancelled_at change.
C4_CancelOutsideWindowFrame ==
    [][ \A oid \in DOMAIN orders :
          ( /\ OrderCancelled(oid)
            /\ \/ orders[oid].paid_at = NoTime
               \/ now - orders[oid].paid_at > 7 )
          => /\ commissions' = commissions
             /\ users' = users
             /\ transactions' = transactions
             /\ DOMAIN orders' = DOMAIN orders
             /\ \A o \in DOMAIN orders : o # oid => orders'[o] = orders[o]
             /\ orders'[oid] =
                    [orders[oid] EXCEPT !.order_status = orders'[oid].order_status,
                                        !.cancelled_at = orders'[oid].cancelled_at] ]_vars

\* C4 witness: an order cancelled more than 7 days after its payment whose
\* commission still holds its amount (blocked or available).
C4_Witness ==
    \E oid \in DOMAIN orders : \E i \in 1..Len(commissions) :
        /\ orders[oid].order_status = "cancelled"
        /\ orders[oid].paid_at # NoTime
        /\ orders[oid].cancelled_at - orders[oid].paid_at > 7
        /\ orders[oid].cancelled_at = now
        /\ commissions[i].order_id = oid
        /\ commissions[i].status \in {"blocked", "available"}
        /\ users[commissions[i].user_id].blocked_balance
             + users[commissions[i].user_id].available_balance > 0

\* C5: cancelling, within the window, an order whose commissions are all
\* reversed already debits no balance.
C5_SecondReversalNoDebit ==
    [][ \A oid \in DOMAIN orders :
          ( /\ OrderCancelled(oid)
            /\ WithinCancelWindow(orders[oid], now)
            /\ \E i \in 1..Len(commissions) : commissions[i].order_id = oid
            /\ \A i \in 1..Len(commissions) :
                 commissions[i].order_id = oid => commissions[i].status = "reversed" )
          => \A uid \in DOMAIN users :
                /\ users'[uid].blocked_balance = users[uid].blocked_balance
                /\ users'[uid].available_balance = users[uid].available_balance ]_vars

\* C5 witness: a cancelled order, still within the window, whose commissions
\* an earlier cancellation has reversed: cancelling it again is the claim's
\* case.
C5_Witness ==
    \E oid \in DOMAIN orders :
        /\ orders[oid].order_status = "cancelled"
        /\ WithinCancelWindow(orders[oid], now)
        /\ orders[oid].cancelled_at < now
        /\ \E i \in 1..Len(commissions) :
              /\ commissions[i].order_id = oid
              /\ commissions[i].amount > 0
        /\ \A i \in 1..Len(commissions) :
              commissions[i].order_id = oid
                  => /\ commissions[i].status = "reversed"
                     /\ commissions[i].reversed_at = orders[oid].cancelled_at

\* the sum of the amounts of uid's commissions that a sweep at time t is to
\* release: blocked, with release_at <= t
Due(comms, uid, t) ==
    SumSeq([ k \in 1..Len(comms) |->
               IF comms[k].user_id = uid /\ comms[k].status = "blocked"
                  /\ comms[k].release_at <= t
               THEN comms[k].amount ELSE 0 ])

\* C6: a release sweep moves each eligible commission from blocked to
\* available exactly once, and a second sweep started right after it (the
\* scheduled job or the admin endpoint, at the same clock reading) changes no
\* commission and no balance.
C6_SecondSweepNoOp ==
    [][ (release_commissions_job \/ process_blocked_commissions)
        => /\ Len(commissions') = Len(commissions)
           /\ \A i \in 1..Len(commissions) :
                IF commissions[i].status = "blocked" /\ commissions[i].release_at <= now
                THEN commissions'[i].status = "available"
                ELSE commissions'[i] = commissions[i]
           /\ \A uid \in DOMAIN users :
                /\ users'[uid].blocked_balance =
                      users[uid].blocked_balance - Due(commissions, uid, now)
                /\ users'[uid].available_balance =
                      users[uid].available_balance + Due(commissions, uid, now)
           /\ JobLoop(commissions', users',
                      FindEligible(commissions', now', JobReleaseLimit), now')
                 = <<commissions', users'>>
           /\ AdminLoop(commissions', users', transactions',
                        FindEligible(commissions', now', AdminReleaseLimit), now')
                 = <<commissions', users', transactions'>> ]_vars

\* C6 witness: a sweep has just released a commission (released_at is the
\* current clock reading) and its amount is in available_balance, so that a
\* sweep run now is the second of two in immediate succession.
C6_Witness ==
    \E i \in 1..Len(commissions) :
        /\ commissions[i].status = "available"
        /\ commissions[i].released_at = now
        /\ commissions[i].amount > 0
        /\ users[commissions[i].user_id].available_balance >= commissions[i].amount

\* C7: every user's available_balance and blocked_balance are non-negative in
\* every state reachable by order-paid processing, release sweeps, order
\* cancellations and withdrawal requests.
C7_BalancesNonNegative ==
    \A uid \in DOMAIN users :
        /\ users[uid].available_balance >= 0
        /\ users[uid].blocked_balance >= 0

\* C8: the paid transition is idempotent per order: however often an order is
\* marked paid, it has one commission per earner and level, and each earner's
\* blocked_balance was credited once.
C8_PaidIdempotent ==
    \A i, j \in 1..Len(commissions) :
        ( /\ commissions[i].order_id = commissions[j].order_id
          /\ commissions[i].user_id = commissions[j].user_id
          /\ commissions[i].level = commissions[j].level )
        => i = j

\* C9: for a reseller- or leader-referred order whose referrer R1, R1's
\* sponsor R2 and R2's sponsor R3 are all active, processing creates exactly
\* the three commissions (R1, level 1, commission_level_1), (R2, level 2,
\* commission_level_2), (R3, level 3, commission_level_3), all blocked and
\* all with release_at = processing time + bonus_block_days, and pays no
\* fourth-level ancestor.
C9_ThreeActiveLevels ==
    [][ \A oid \in DOMAIN orders :
          LET r1 == orders[oid].referrer_id
              r2 == users[r1].sponsor_id
              r3 == users[r2].sponsor_id
              r4 == users[r3].sponsor_id
              n  == Len(commissions)
              expected == << <<r1, settings.commission_level_1>>,
                             <<r2, settings.commission_level_2>>,
                             <<r3, settings.commission_level_3>> >>
          IN  ( /\ OrderPaid(oid)
                /\ orders[oid].referrer_type \in {"revendedor", "lider"}
                /\ r1 \in DOMAIN users /\ users[r1].status = "active"
                /\ r2 \in DOMAIN users /\ users[r2].status = "active"
                /\ r3 \in DOMAIN users /\ users[r3].status = "active" )
              => /\ Len(commissions') = n + 3
                 /\ SubSeq(commissions', 1, n) = commissions
                 /\ \A k \in 1..3 :
                      /\ commissions'[n + k].order_id = oid
                      /\ commissions'[n + k].user_id = expected[k][1]
                      /\ commissions'[n + k].level = k
                      /\ commissions'[n + k].rate = expected[k][2]
                      /\ commissions'[n + k].status = "blocked"
                      /\ commissions'[n + k].release_at = now + settings.bonus_block_days
                 /\ r4 \in DOMAIN users /\ r4 \notin {r1, r2, r3}
                      => users'[r4].blocked_balance = users[r4].blocked_balance ]_vars

\* C9 witness: an order with commissions at levels 1, 2 and 3 for u1, u2 and
\* u3, while u3's active sponsor u4 has earned nothing.
C9_Witness ==
    /\ Len(commissions) = 3
    /\ \A k \in 1..3 : commissions[k].level = k /\ commissions[k].order_id = "o1"
    /\ <<commissions[1].user_id, commissions[2].user_id, commissions[3].user_id>>
          = <<"u1", "u2", "u3">>
    /\ users["u4"].status = "active"
    /\ users["u4"].blocked_balance = 0
    /\ users["u3"].blocked_balance > 0
    /\ settings.commission_level_2 # settings.commission_level_3

\* C10: for a reseller- or leader-referred order on a chain R1 -> R2 -> R3
\* with R1 and R3 active and R2 suspended, processing creates exactly two
\* commissions: (R1, level 1, commission_level_1) and (R3, level 3,
\* commission_level_3); R2 receives nothing.
C10_ChainSkip ==
    [][ \A oid \in DOMAIN orders :
          LET r1 == orders[oid].referrer_id
              r2 == users[r1].sponsor_id
              r3 == users[r2].sponsor_id
              n  == Len(commissions)
          IN  ( /\ OrderPaid(oid)
                /\ orders[oid].referrer_type \in {"revendedor", "lider"}
                /\ r1 \in DOMAIN users /\ users[r1].status = "active"
                /\ r2 \in DOMAIN users /\ users[r2].status = "suspended"
                /\ r3 \in DOMAIN users /\ users[r3].status = "active" )
              => /\ Len(commissions') = n + 2
                 /\ SubSeq(commissions', 1, n) = commissions
                 /\ commissions'[n + 1].user_id = r1
                 /\ commissions'[n + 1].level = 1
                 /\ commissions'[n + 1].rate = settings.commission_level_1
                 /\ commissions'[n + 2].user_id = r3
                 /\ commissions'[n + 2].level = 3
                 /\ commissions'[n + 2].rate = settings.commission_level_3
                 /\ r2 \notin {r1, r3}
                      => users'[r2].blocked_balance = users[r2].blocked_balance ]_vars

\* C10 witness: u2 is suspended, the order has exactly the commissions of u1
\* at level 1 and of u3 at level 3, and levels 2 and 3 pay different rates.
C10_Witness ==
    /\ users["u2"].status = "suspended"
    /\ Len(commissions) = 2
    /\ commissions[1].user_id = "u1" /\ commissions[1].level = 1
    /\ commissions[2].user_id = "u3" /\ commissions[2].level = 3
    /\ commissions[2].rate = settings.commission_level_3
    /\ settings.commission_level_2 # settings.commission_level_3
    /\ users["u2"].blocked_balance = 0

\* the commissions a step has appended to db.commissions
Created == SubSeq(commissions', Len(commissions) + 1, Len(commissions'))

AmountsOf(comms, uid) ==
    SumSeq([ k \in 1..Len(comms) |->
               IF comms[k].user_id = uid THEN comms[k].amount ELSE 0 ])

\* C12: processing a paid order adds to each user's blocked_balance the sum
\* of the amounts of the commissions created for that user (nothing for a
\* user who received none) and leaves every available_balance unchanged.
C12_BlockedCredited ==
    [][ \A oid \in DOMAIN orders :
          OrderPaid(oid)
          => \A uid \in DOMAIN users :
                /\ users'[uid].blocked_balance =
                      users[uid].blocked_balance + AmountsOf(Created, uid)
                /\ users'[uid].available_balance = users[uid].available_balance ]_vars

\* C12 witness: an order processed with commissions for u2 and u4 and none
\* for the suspended u3: u2 and u4 hold their amounts in blocked_balance, u3
\* and the buyer hold nothing.
C12_Witness ==
    /\ Len(commissions) = 2
    /\ commissions[1].user_id = "u2" /\ commissions[2].user_id = "u4"
    /\ users["u2"].blocked_balance = commissions[1].amount
    /\ users["u4"].blocked_balance = commissions[2].amount
    /\ commissions[1].amount > 0 /\ commissions[2].amount > 0
    /\ users["u3"].blocked_balance = 0
    /\ users["u1"].blocked_balance = 0
    /\ \A uid \in DOMAIN users : users[uid].available_balance = 0

\* the users on the sponsor chain from cur upwards, cur included, as far as
\* `fuel` links
RECURSIVE Upline(_, _, _)
Upline(us, cur, fuel) ==
    IF cur = None \/ fuel = 0 THEN {}
    ELSE {cur} \cup ( IF cur \in DOMAIN us
                      THEN Upline(us, us[cur].sponsor_id, fuel - 1)
                      ELSE {} )

\* the ancestors of uid
Ancestors(us, uid) == Upline(us, us[uid].sponsor_id, Cardinality(DOMAIN us))

\* C13: processing a paid order with a resolvable referrer adds
\* commission_base to the buyer's personal_volume when the buyer is a leader
\* or a reseller, and then adds commission_base to the team_volume of every
\* ancestor of the buyer, whatever the ancestor's status; no other volume
\* changes, and a buyer of another role gets no personal_volume.
C13_VolumesCredited ==
    [][ \A oid \in DOMAIN orders :
          LET buyer == orders[oid].user_id
              base  == orders[oid].commission_base
              credited == users[buyer].access_level \in {3, 4}
          IN  ( /\ OrderPaid(oid)
                /\ ~ReturnsEarly(users, orders[oid])
                /\ ~RaisesOnRate(users, orders[oid]) )
              => \A uid \in DOMAIN users :
                    /\ users'[uid].personal_volume =
                          users[uid].personal_volume
                            + (IF credited /\ uid = buyer THEN base ELSE 0)
                    /\ users'[uid].team_volume =
                          users[uid].team_volume
                            + (IF credited /\ uid \in Ancestors(users, buyer)
                               THEN base ELSE 0) ]_vars

\* C13 witness: the reseller or leader u1 has bought with the code of u2;
\* u1 has the base as personal_volume and its ancestors u2 (suspended), u3
\* (cancelled) and u4 have it as team_volume.
C13_Witness ==
    /\ orders["o1"].user_id = "u1"
    /\ orders["o1"].referrer_id = "u2"
    /\ orders["o1"].order_status = "paid"
    /\ users["u2"].status = "suspended"
    /\ users["u3"].status = "cancelled"
    /\ users["u1"].personal_volume = 1000
    /\ users["u1"].team_volume = 0
    /\ \A a \in {"u2", "u3", "u4"} :
          users[a].team_volume = 1000 /\ users[a].personal_volume = 0

\* C14: a paid order placed by a leader or reseller credits the buyer's
\* personal_volume and its ancestors' team_volume by commission_base also
\* when the order has no referrer or its referrer id matches no user.
C14_VolumesWithoutReferrer ==
    [][ \A oid \in DOMAIN orders :
          LET buyer == orders[oid].user_id
              base  == orders[oid].commission_base
          IN  ( /\ OrderPaid(oid)
                /\ ReturnsEarly(users, orders[oid])
                /\ users[buyer].access_level \in {3, 4} )
              => /\ users'[buyer].personal_volume =
                       users[buyer].personal_volume + base
                 /\ \A uid \in Ancestors(users, buyer) :
                       users'[uid].team_volume = users[uid].team_volume + base ]_vars

\* C16: when a run of the qualification job completes, every leader and
\* every reseller has personal_volume = 0 and team_volume = 0, whatever the
\* run decided for them.
C16_VolumesReset ==
    [][ check_qualifications_job
        => \A uid \in DOMAIN users :
              users'[uid].access_level \in {3, 4}
                  => /\ users'[uid].personal_volume = 0
                     /\ users'[uid].team_volume = 0 ]_vars

\* C16 witness: the job has run at day 360 after u1 bought: it has stamped
\* the qualified u1, cancelled u2 (u1 is re-parented) and skipped u4, which
\* has no last_qualification, and every volume is 0.
C16_Witness ==
    /\ now > 0
    /\ orders["o1"].user_id = "u1" /\ orders["o1"].paid_at = now
    /\ users["u1"].access_level = 4
    /\ users["u1"].last_qualification = now
    /\ users["u2"].status = "cancelled"
    /\ users["u1"].sponsor_id # "u2"
    /\ users["u4"].last_qualification = NoTime
    /\ users["u4"].status = "active"
    /\ \A uid \in DOMAIN users :
          users[uid].personal_volume = 0 /\ users[uid].team_volume = 0

\* C20: in a qualification evaluation, scheduled or on demand, a reseller
\* whose personal_volume as read is >= min_qualification_amount has
\* last_qualification set to now and keeps its status (it is neither
\* suspended nor cancelled), whatever its previous last_qualification.
C20_QualifiedIsSafe ==
    [][ (check_qualifications_job \/ check_qualifications)
        => \A uid \in DOMAIN users :
              ( /\ users[uid].access_level = 4
                /\ users[uid].personal_volume >= settings.min_qualification_amount )
              => /\ users'[uid].last_qualification = now
                 /\ users'[uid].status = users[uid].status ]_vars

\* C15: in every user store reachable through registration, conversion and
\* the qualification job, the team-volume walk of order-paid processing
\* terminates for every buyer it is run for (every leader and reseller): it
\* reaches a null sponsor or a missing user record.
C15_WalkTerminates ==
    \A uid \in DOMAIN users : VolumeWalkTerminates(users, uid)

\* C18: whenever no run of the qualification job is in flight, every user
\* without a sponsor has hierarchy_level 0 and every user with a sponsor has
\* its sponsor's hierarchy_level + 1 (the grandchildren of a spliced-out
\* reseller included), in every state reachable by registration, conversion
\* and qualification-job runs.
C18_HierarchyLevels ==
    tasks = NoTasks =>
        \A uid \in DOMAIN users :
            IF users[uid].sponsor_id = None
            THEN users[uid].hierarchy_level = 0
            ELSE users[uid].sponsor_id \in DOMAIN users
                    => users[uid].hierarchy_level =
                          users[users[uid].sponsor_id].hierarchy_level + 1

\* C19: no user is its own ancestor, in every state reachable by
\* registration, conversion and qualification-job runs (a conversion with the
\* sponsor code of the user itself or of one of its descendants does not set
\* sponsor_id).
C19_SponsorGraphAcyclic ==
    \A uid \in DOMAIN users : uid \notin Ancestors(users, uid)

\* C17: from an acyclic sponsor graph, the qualification job leaves the graph
\* acyclic, and each splice (the cancellation of one reseller) lowers the
\* hierarchy_level of exactly the users it re-parents, those whose sponsor
\* was the cancelled reseller, by exactly 1 and gives them the cancelled
\* reseller's sponsor as read by the job.
C17_SplicePreservesForest ==
    [][ QualEvaluate("t1")
        => LET reseller == Head(tasks["t1"].snapshot)
               spliced  == /\ users[reseller.user_id].status # "cancelled"
                           /\ users'[reseller.user_id].status = "cancelled"
           IN  /\ \A uid \in DOMAIN users : uid \notin Ancestors(users', uid)
               /\ \A uid \in DOMAIN users :
                    IF spliced /\ users[uid].sponsor_id = reseller.user_id
                    THEN /\ users'[uid].hierarchy_level =
                               users[uid].hierarchy_level - 1
                         /\ users'[uid].sponsor_id = reseller.sponsor_id
                    ELSE /\ users'[uid].hierarchy_level = users[uid].hierarchy_level
                         /\ users'[uid].sponsor_id = users[uid].sponsor_id ]_vars

\* C17 witness: a run of the job has ended in which the qualified reseller c
\* was re-parented by a splice: its sponsor b is a cancelled reseller, which
\* the cancellation of b would have taken away, so c was given to b by the
\* later cancellation of a reseller whose sponsor, as the job had read it,
\* was b.
C17_Witness ==
    /\ tasks = NoTasks
    /\ now > 0
    /\ \E c \in DOMAIN users : \E b \in DOMAIN users \ {c} :
          /\ users[c].status = "active"
          /\ users[c].last_qualification = now
          /\ users[c].sponsor_id = b
          /\ users[b].status = "cancelled"
          /\ users[c].hierarchy_level = users[b].hierarchy_level + 1
          /\ \E a \in DOMAIN users \ {b, c} : users[a].status = "cancelled"

\* C21: every commission that a release sweep has moved to available
\* (released_at is set), whichever sweep did it, has exactly one transaction
\* of type commission_released whose reference_id is the commission.
C21_ReleaseLedger ==
    \A i \in 1..Len(commissions) :
        commissions[i].released_at # NoTime
            => Cardinality({ k \in 1..Len(transactions) :
                               /\ transactions[k].type = "commission_released"
                               /\ transactions[k].reference_id = i }) = 1

\* C22: in every reachable state, processing an order whose snapshotted
\* referrer type is ambassador does not fail and creates exactly one
\* commission: level 0, for the referrer, at the referrer's
\* ambassador_commission, or at 5 when that rate is unset.
C22_AmbassadorRate ==
    \A oid \in DOMAIN orders :
        LET order   == orders[oid]
            created == CommissionsFor(users, settings, oid, order, now)
        IN  ( order.referrer_type = "embaixador" /\ ~ReturnsEarly(users, order) )
            => /\ ~RaisesOnRate(users, order)
               /\ Len(created) = 1
               /\ created[1].level = 0
               /\ created[1].user_id = order.referrer_id
               /\ created[1].rate =
                     IF users[order.referrer_id].ambassador_commission = NoRate
                     THEN 5
                     ELSE users[order.referrer_id].ambassador_commission

\* C23: processing a paid order with no referrer_id, with a referrer_id that
\* matches no user, or with a referrer_type outside ambassador, client,
\* reseller and leader completes (the order is marked paid), creates no
\* commission and changes no blocked_balance and no available_balance.
C23_NoReferrerNoCommission ==
    [][ \A oid \in DOMAIN orders :
          ( /\ OrderPaid(oid)
            /\ \/ orders[oid].referrer_id = None
               \/ orders[oid].referrer_id \notin DOMAIN users
               \/ orders[oid].referrer_type \notin
                     {"embaixador", "cliente", "revendedor", "lider"} )
          => /\ commissions' = commissions
             /\ orders'[oid].order_status = "paid"
             /\ orders'[oid].paid_at = now
             /\ \A uid \in DOMAIN users :
                  /\ users'[uid].blocked_balance = users[uid].blocked_balance
                  /\ users'[uid].available_balance = users[uid].available_balance ]_vars

\* C23 witness: an order bought by the reseller u3 with the code of a
\* supervisor has been processed (u3 has its personal volume): there is no
\* commission and every balance is 0.
C23_Witness ==
    \E oid \in DOMAIN orders :
        /\ orders[oid].order_status = "paid"
        /\ orders[oid].referrer_id = "cl"
        /\ orders[oid].referrer_type = "supervisor"
        /\ orders[oid].user_id = "u3"
        /\ users["u3"].personal_volume = orders[oid].commission_base
        /\ commissions = <<>>
        /\ \A uid \in DOMAIN users :
              users[uid].blocked_balance = 0 /\ users[uid].available_balance = 0

\* C28: processing an order whose referrer_type, as stored when the order
\* was created, is client creates exactly one commission, of level 0, for
\* the referrer and at client_referral_commission, whatever the referrer's
\* role is when the order is paid.
C28_SnapshottedReferrerType ==
    [][ \A oid \in DOMAIN orders :
          ( /\ OrderPaid(oid)
            /\ orders[oid].referrer_type = "cliente"
            /\ ~ReturnsEarly(users, orders[oid]) )
          => /\ Len(Created) = 1
             /\ Created[1].level = 0
             /\ Created[1].user_id = orders[oid].referrer_id
             /\ Created[1].rate = settings.client_referral_commission
             /\ Created[1].amount * 100 =
                   orders[oid].commission_base * settings.client_referral_commission ]_vars

\* C28 witness: the order was created with the code of the client cl, cl was
\* then converted to reseller under u3 (its last_qualification is the day of
\* the conversion) and the order was paid later: the only commission is cl's,
\* of level 0; u3 and u4 have earned nothing.
C28_Witness ==
    /\ Len(commissions) = 1
    /\ commissions[1].level = 0
    /\ commissions[1].user_id = "cl"
    /\ commissions[1].rate = settings.client_referral_commission
    /\ orders[commissions[1].order_id].referrer_type = "cliente"
    /\ users["cl"].access_level = 4
    /\ users["cl"].sponsor_id = "u3"
    /\ users["cl"].last_qualification # NoTime
    /\ users["cl"].last_qualification < commissions[1].created_at
    /\ users["u3"].status = "active"
    /\ users["u3"].blocked_balance = 0 /\ users["u4"].blocked_balance = 0

\* the user at position k (from 1) of the sponsor chain that starts at
\* `start`; None when the chain ends before it
RECURSIVE Position(_, _, _)
Position(us, start, k) ==
    IF start = None \/ start \notin DOMAIN us THEN None
    ELSE IF k = 1 THEN start
    ELSE Position(us, us[start].sponsor_id, k - 1)

Unreversed(comms, uid) ==
    SumSeq([ k \in 1..Len(comms) |->
               IF comms[k].user_id = uid /\ comms[k].reversed_at = NoTime
               THEN comms[k].amount ELSE 0 ])

\* C25: when a release sweep and an in-window cancellation have overlapped
\* in any way and both have ended, every commission that the cancellation
\* reversed has status reversed, and its amount has left its earner's
\* balances exactly once: blocked_balance + available_balance is the sum of
\* the earner's commissions that were not reversed.
C25_ReversalWinsOverSweep ==
    tasks = NoTasks =>
        /\ \A i \in 1..Len(commissions) :
              commissions[i].reversed_at # NoTime
                  => commissions[i].status = "reversed"
        /\ \A uid \in DOMAIN users :
              users[uid].blocked_balance + users[uid].available_balance
                  = Unreversed(commissions, uid)

\* C26: when a run of the qualification job has ended, no user's sponsor_id
\* is a cancelled reseller: the children of every reseller the run cancelled
\* have that reseller's sponsor, also when the sponsor was cancelled in the
\* same run, before or after it.
C26_NoCancelledSponsor ==
    tasks = NoTasks =>
        \A uid \in DOMAIN users :
            users[uid].sponsor_id \in DOMAIN users
                => users[users[uid].sponsor_id].status # "cancelled"

\* C27: the evaluation, by the qualification job, of a reseller with
\* personal_volume below the minimum, status active and
\* inactive_months_suspend <= months_inactive < inactive_months_cancel sets
\* that reseller's status to suspended and changes nothing else: no
\* sponsor_id and no hierarchy_level.
C27_SuspensionFrame ==
    [][ QualEvaluate("t1")
        => LET reseller == Head(tasks["t1"].snapshot)
               months   == (tasks["t1"].now - reseller.last_qualification) \div 30
           IN  ( /\ reseller.personal_volume < settings.min_qualification_amount
                 /\ reseller.status = "active"
                 /\ reseller.last_qualification # NoTime
                 /\ months >= settings.inactive_months_suspend
                 /\ months < settings.inactive_months_cancel )
               => users' = [users EXCEPT ![reseller.user_id].status = "suspended"] ]_vars

\* C27 witness: six months in, the job has suspended a reseller that has a
\* direct child: the child still has it as sponsor, one level below it.
C27_Witness ==
    /\ now >= 180 /\ now < 360
    /\ \E r \in DOMAIN users : \E c \in DOMAIN users \ {r} :
          /\ users[r].status = "suspended"
          /\ users[r].last_qualification = 0
          /\ users[c].sponsor_id = r
          /\ users[c].hierarchy_level = users[r].hierarchy_level + 1

\* C30: every commission is created in status blocked with
\* release_at = creation time + bonus_block_days, and a commission's status
\* becomes available only at a time >= its release_at.
C30_HoldPeriod ==
    [][ /\ \A i \in 1..Len(commissions) :
             ( commissions[i].status # "available"
               /\ commissions'[i].status = "available" )
             => /\ commissions[i].release_at <= now
                /\ commissions'[i].released_at >= commissions[i].release_at
        /\ \A k \in 1..Len(Created) :
             /\ Created[k].status = "blocked"
             /\ Created[k].created_at = now
             /\ Created[k].release_at = now + settings.bonus_block_days ]_vars

\* C30 witness: a commission created with the default hold of 7 days is
\* available, released at or after its release_at, with its amount in the
\* earner's available_balance.
C30_Witness ==
    \E i \in 1..Len(commissions) :
        /\ settings.bonus_block_days = 7
        /\ commissions[i].release_at = commissions[i].created_at + 7
        /\ commissions[i].status = "available"
        /\ commissions[i].released_at >= commissions[i].release_at
        /\ commissions[i].released_at = now
        /\ users[commissions[i].user_id].available_balance >= commissions[i].amount
        /\ commissions[i].amount > 0

\* the sum of the amounts of all of uid's commissions
Earned(comms, uid) ==
    SumSeq([ k \in 1..Len(comms) |->
               IF comms[k].user_id = uid THEN comms[k].amount ELSE 0 ])

\* C24: when paid orders that credit the same user are processed with their
\* store operations interleaved in any way and the requests have ended, that
\* user's blocked_balance is the initial value (0) plus the sum of the
\* amounts of all the commissions created for that user: no credit is lost.
C24_NoLostCredit ==
    tasks = NoTasks =>
        \A uid \in DOMAIN users :
            users[uid].blocked_balance = Earned(commissions, uid)

\* C24 witness: both requests have ended; u2 was credited at level 2 for o1
\* and at level 1 for o2, the commission of o2 having been inserted between
\* two commissions of o1 (the two runs overlapped), and u2 holds the sum of
\* the two amounts.
C24_Witness ==
    /\ tasks = NoTasks
    /\ \E i, j, k \in 1..Len(commissions) :
          /\ i < j /\ j < k
          /\ commissions[i].order_id = "o1" /\ commissions[i].user_id = "u1"
          /\ commissions[j].order_id = "o2" /\ commissions[j].user_id = "u2"
          /\ commissions[j].level = 1
          /\ commissions[k].order_id = "o1" /\ commissions[k].user_id = "u2"
          /\ commissions[k].level = 2
          /\ Len(commissions) <= 6
          /\ users["u2"].blocked_balance
                = commissions[j].amount + commissions[k].amount
          /\ commissions[j].amount = 100 /\ commissions[k].amount = 60

\* C33: after any sequence of complete order-paid processings, release
\* sweeps and order cancellations, from zero balances and no commissions,
\* every user's blocked_balance is the sum of the amounts of its commissions
\* in status blocked and its available_balance the sum of those in status
\* available.
C33_Accounting ==
    \A uid \in DOMAIN users :
        /\ users[uid].blocked_balance = Held(commissions, uid, "blocked")
        /\ users[uid].available_balance = Held(commissions, uid, "available")

\* C33 witness: after a cancellation, a release and a later payment, some
\* user has a reversed, an available and a blocked commission, and holds the
\* amounts of the last two in the two balances.
C33_Witness ==
    \E uid \in DOMAIN users : \E i, j, k \in 1..Len(commissions) :
        /\ commissions[i].user_id = uid /\ commissions[i].status = "reversed"
        /\ commissions[j].user_id = uid /\ commissions[j].status = "available"
        /\ commissions[k].user_id = uid /\ commissions[k].status = "blocked"
        /\ users[uid].available_balance = commissions[j].amount
        /\ users[uid].blocked_balance = commissions[k].amount
        /\ commissions[j].amount > 0 /\ commissions[k].amount > 0

\* C35: processing an order whose snapshotted referrer type is ambassador
\* or client creates the single level-0 commission for the referrer and
\* credits its blocked_balance whatever the referrer's status is; processing
\* a reseller- or leader-referred order whose referrer is not active creates
\* no commission for that referrer.
C35_FlatIgnoresStatus ==
    [][ \A oid \in DOMAIN orders :
          ( OrderPaid(oid) /\ ~ReturnsEarly(users, orders[oid])
            /\ ~RaisesOnRate(users, orders[oid]) )
          => LET referrer == orders[oid].referrer_id
             IN  /\ orders[oid].referrer_type \in {"embaixador", "cliente"}
                    => /\ Len(Created) = 1
                       /\ Created[1].level = 0
                       /\ Created[1].user_id = referrer
                       /\ Created[1].amount > 0
                       /\ users'[referrer].blocked_balance
                             = users[referrer].blocked_balance + Created[1].amount
                 /\ ( orders[oid].referrer_type \in {"revendedor", "lider"}
                      /\ users[referrer].status # "active" )
                    => /\ \A k \in 1..Len(Created) : Created[k].user_id # referrer
                       /\ users'[referrer].blocked_balance
                             = users[referrer].blocked_balance ]_vars

\* C35 witness: a referrer whose status was last set, to suspended or
\* cancelled, before the order was paid holds the level-0 commission of that
\* order in its blocked_balance.
C35_Witness ==
    \E i \in 1..Len(commissions) :
        LET referrer == users[commissions[i].user_id]
        IN  /\ commissions[i].level = 0
            /\ orders[commissions[i].order_id].referrer_type
                  \in {"embaixador", "cliente"}
            /\ referrer.status \in {"suspended", "cancelled"}
            /\ "updated_at" \in DOMAIN referrer
            /\ referrer.updated_at < commissions[i].created_at
            /\ referrer.blocked_balance >= commissions[i].amount
            /\ commissions[i].amount > 0

\* C36: a run of the qualification job leaves a reseller whose
\* last_qualification is unset and whose personal_volume is below the
\* minimum with its status and with last_qualification unset, and leaves
\* every child of it with the same sponsor_id and hierarchy_level: such a
\* reseller is never suspended or cancelled, by any number of runs.
C36_UnstampedNeverInactive ==
    [][ check_qualifications_job
        => \A r \in DOMAIN users :
              ( /\ users[r].access_level = 4
                /\ users[r].last_qualification = NoTime
                /\ users[r].personal_volume < settings.min_qualification_amount )
              => /\ users'[r].status = users[r].status
                 /\ users'[r].last_qualification = NoTime
                 /\ \A c \in DOMAIN users :
                       users[c].sponsor_id = r
                       => /\ users'[c].sponsor_id = r
                          /\ users'[c].hierarchy_level = users[c].hierarchy_level ]_vars

\* C36 witness: twelve months in, the job has cancelled a reseller that
\* registered on day 0 under a sponsor made reseller by the user update; the
\* sponsor, with no last_qualification, is still active and still the
\* sponsor of the cancelled reseller.
C36_Witness ==
    \E r \in DOMAIN users : \E c \in DOMAIN users \ {r} :
        /\ now >= 360
        /\ users[r].access_level = 4
        /\ "updated_at" \in DOMAIN users[r]
        /\ users[r].last_qualification = NoTime
        /\ users[r].status = "active"
        /\ users[c].sponsor_id = r
        /\ users[c].last_qualification = 0
        /\ users[c].status = "cancelled"
        /\ users[c].hierarchy_level = users[r].hierarchy_level + 1

\* C32: run on the same user store with the same settings and clock, the
\* scheduled qualification job and the on-demand qualification check leave
\* every user with the same status, sponsor_id, hierarchy_level,
\* last_qualification and volumes.
C32_QualificationPathsAgree ==
    LET resellers == FindResellers(users)
        job   == ResetVolumes(JobQualifyLoop(users, resellers, now, settings))
        admin == ResetVolumes(AdminQualifyLoop(users, resellers, now, settings))
    IN  \A uid \in DOMAIN users :
            /\ job[uid].status = admin[uid].status
            /\ job[uid].sponsor_id = admin[uid].sponsor_id
            /\ job[uid].hierarchy_level = admin[uid].hierarchy_level
            /\ job[uid].last_qualification = admin[uid].last_qualification
            /\ job[uid].personal_volume = admin[uid].personal_volume
            /\ job[uid].team_volume = admin[uid].team_volume

\* C34: when a release sweep was interrupted by a store failure between two
\* of its writes and a later sweep has left nothing eligible, every
\* commission that was eligible is available with its amount moved from
\* blocked_balance to available_balance exactly once: each user's
\* blocked_balance is the sum of its blocked commissions and its
\* available_balance the sum of its available ones (nothing else than
\* payments and sweeps has run).
C34_CrashTolerantRelease ==
    ( /\ tasks = NoTasks
      /\ FindEligible(commissions, now, JobReleaseLimit) = <<>> )
    => \A uid \in DOMAIN users :
          /\ users[uid].blocked_balance = Held(commissions, uid, "blocked")
          /\ users[uid].available_balance = Held(commissions, uid, "available")

\* C31: with the release sweep run by the scheduler again and again, every
\* commission that is blocked with release_at passed eventually is available
\* with its amount in its earner's available_balance, unless its order is
\* cancelled in between (the commission is then reversed).
C31_EventuallyReleased ==
    \A i \in 1..MaxComms :
        ( /\ i <= Len(commissions)
          /\ commissions[i].status = "blocked"
          /\ commissions[i].release_at <= now )
        ~> ( /\ i <= Len(commissions)
             /\ \/ /\ commissions[i].status = "available"
                   /\ users[commissions[i].user_id].available_balance
                         >= commissions[i].amount
                \/ commissions[i].status = "reversed" )

\* C31 witness: the scheduled sweep alone (no release transaction exists) has
\* released the commission of an order that is paid and not cancelled: the
\* amount is the earner's available_balance and nothing of it is blocked.
C31_Witness ==
    /\ transactions = <<>>
    /\ \E i \in 1..Len(commissions) :
          /\ commissions[i].status = "available"
          /\ commissions[i].released_at >= commissions[i].release_at
          /\ orders[commissions[i].order_id].order_status = "paid"
          /\ users[commissions[i].user_id].available_balance = commissions[i].amount
          /\ users[commissions[i].user_id].blocked_balance = 0
          /\ commissions[i].amount > 0

====
